---- MODULE Spec2Model ----
(***************************************************************************)
(* The jarvis orchestration core of nanobot: Orchestrator.handle (plan,    *)
(* dispatch in waves, merge), the AgentPool.run_agent executor as the      *)
(* dispatcher sees it, and the SharedMemory artifact store; and the Swarm   *)
(* conversation runtime of nanobot.agent.swarm (Swarm.run, its tool        *)
(* invocations and handoffs, Swarm._handle_result).  Each component has    *)
(* its own specification; the variables of the other components rest.      *)
(*                                                                         *)
(* Texts are sequences of tokens, so that an f-string is a concatenation   *)
(* and "contains" is a membership test.  AgentResult.duration_s is a wall  *)
(* clock reading and is left out.  on_progress is None, as in              *)
(* SwarmTool.execute.                                                      *)
(***************************************************************************)
EXTENDS Integers, Sequences, FiniteSets, TLC

\* Largest number of tasks in a planned task graph.
MaxTasks == 3
\* Largest number of ids in one task's "depends" list.
MaxDeps == 2

TidName == <<"t1", "t2", "t3", "t4", "t5">>
TaskIds == {TidName[i] : i \in 1..MaxTasks}

\* RoleRegistry._roles: the role names the catalog knows.
Catalog == {"coder", "researcher"}
\* Role names a planner may emit: the catalog's and one it does not hold.
RoleNames == Catalog \cup {"ghost"}

SmallSubsets(S, k) == {D \in SUBSET S : Cardinality(D) <= k}

\* TaskSpec as _parse_task_graph leaves it: role, task text, depends.
TaskSpecs == [role : RoleNames, depends : SmallSubsets(TaskIds, MaxDeps)]
\* The task graphs a planner response can parse to: ids t1..tn, 0 <= n.
Graphs == UNION {[{TidName[i] : i \in 1..n} -> TaskSpecs] : n \in 0..MaxTasks}

EmptyGraph == [t \in {} |-> [role |-> "ghost", depends |-> {}]]

\* task_spec["task"]
TaskText(tid) == <<"task of", tid>>
\* What the agent of task tid answers.
AgentOutput(tid) == <<"output of", tid>>
\* str(e) of the exception the executor of task tid raises.
ExcText(tid) == <<"failure in", tid>>

Contains(text, tok) == \E i \in 1..Len(text) : text[i] = tok
IsInfix(part, text) ==
    \E i \in 0..(Len(text) - Len(part)) :
        \A j \in 1..Len(part) : text[i + j] = part[j]

CouldNotDecompose ==
    <<"I couldn't break this request into actionable tasks. Please try rephrasing.">>
FailedToSynthesize == <<"(Failed to synthesize results)">>
NoPriorFindings == <<"(No prior findings yet.)">>

VARIABLES
    pc,          \* where Orchestrator.handle stands
    graph,       \* task_graph
    completed,   \* _dispatch: completed, task id -> AgentResult
    pending,     \* _dispatch: pending
    tstate,      \* per task: its run_agent coroutine, as asyncio.gather sees it
    briefing,    \* per task: what shared_mem.get_briefing() returned to it
    files,       \* SharedMemory.workspace: file stem -> content, the *.md files
    report,      \* what handle returns
    wave,        \* number of the batch being gathered
    waveOf,      \* history: the batch a task was launched in (0: never)
    passOf,      \* history: the pass of the while loop that took a task up (0: none)
    execCalls,   \* history: run_agent invocations per task id
    rejected,    \* history: unknown-role rejections per task id
    calls        \* history: _dispatch, _merge and synthesis model calls

vars == <<pc, graph, completed, pending, tstate, briefing, files, report,
          wave, waveOf, passOf, execCalls, rejected, calls>>

VARIABLES
    spc,         \* where Swarm.run stands
    agent0,      \* run: the agent argument
    ctx0,        \* run: the context_variables argument
    maxTurns,    \* run: the max_turns argument
    active,      \* run: active_agent
    ctx,         \* run: ctx
    history,     \* run: history[init_len:], the messages appended
    turns,       \* run: turns
    resp,        \* run: response.tool_calls of the response being handled
    idx,         \* run: position of the for loop in response.tool_calls
    trace,       \* history: one entry per tool invocation executed
    mcalls,      \* history: one entry per provider.chat call
    caller,      \* the messages list and context_variables dict run was given
    fault        \* history: what raised out of run, if anything

svars == <<spc, agent0, ctx0, maxTurns, active, ctx, history, turns, resp,
           idx, trace, mcalls, caller, fault>>

VARIABLES
    hpc,         \* whether _handle_result has been applied
    raw,         \* _handle_result: raw
    parsed       \* _handle_result: what it returned

hvars == <<hpc, raw, parsed>>

VARIABLES
    ppc,         \* where AgentPool.run_agent stands
    prole,       \* run_agent: role, a RoleSpec
    ptid,        \* run_agent: task_id
    pstore,      \* shared_mem: (agent_name, key) -> content
    registry,    \* _run_llm_loop: tools, the names registered
    iteration,   \* _run_llm_loop: passes of the for loop begun
    presp,       \* _run_llm_loop: response.tool_calls being handled
    pidx,        \* _run_llm_loop: position in response.tool_calls
    final,       \* _run_llm_loop: final_result (<<>> is None)
    proc,        \* _run_claude_code: the claude process
    presult,     \* what run_agent returned (<<>>: nothing yet)
    ran,         \* history: the tools that were run
    refused,     \* history: the tool names asked for and not run
    pexc,        \* history: the exception run_agent caught
    pwrites      \* history: the shared_mem.write calls that succeeded

pvars == <<ppc, prole, ptid, pstore, registry, iteration, presp, pidx, final,
           proc, presult, ran, refused, pexc, pwrites>>

VARIABLES
    mfiles,      \* SharedMemory.workspace: file name -> content
    mlog,        \* history: the write calls, in order
    mop,         \* the last SharedMemory method called
    mret         \* what that call returned

mvars == <<mfiles, mlog, mop, mret>>

VARIABLES
    tpc,         \* where SwarmTool.execute stands
    disk,        \* ~/.nanobot/swarm: session id -> (file stem -> content)
    torigin,     \* SwarmTool: (_origin_channel, _origin_chat_id)
    tsession,    \* execute: session_id
    tgraph,      \* handle: task_graph, task id -> role
    tleft,       \* handle: the tasks whose run_agent has not returned
    tcall,       \* history: number of the execute call
    twrites      \* history: the artifact writes, with the call that made them

tvars == <<tpc, disk, torigin, tsession, tgraph, tleft, tcall, twrites>>

VARIABLES
    qpc,         \* where handle stands with the planner's answer
    qcontent,    \* _parse_task_graph: content, as tokens
    qbody,       \* the JSON value the text between the fences denotes
    qloaded,     \* what json_repair.loads returned (<<>>: it raised)
    qvalid       \* what _parse_task_graph returned

qvars == <<qpc, qcontent, qbody, qloaded, qvalid>>

VARIABLES
    lpc,         \* where AgentLoop.run stands
    running,     \* self._running
    lmsg,        \* run: msg, the message being processed
    sessions,    \* self.sessions: session key -> the Claude mode fields
    outbox,      \* history: what was published since the last consume_inbound
    consumed,    \* history: messages consume_inbound has returned
    liter,       \* _process_message: iteration
    lcalls,      \* _process_message: the tool calls still to execute
    acts,        \* history: what processing the current message did
    stopMark     \* history: where run stood when stop() was called

lvars == <<lpc, running, lmsg, sessions, outbox, consumed, liter, lcalls,
           acts, stopMark>>

wvars == <<qvars, lvars>>

xvars == <<pvars, mvars, tvars, wvars>>

allvars == <<vars, svars, hvars, xvars>>

\* Swarm.run is not running.
SwarmIdle ==
    /\ spc = "idle"
    /\ agent0 = "" /\ ctx0 = <<>> /\ maxTurns = 0
    /\ active = "" /\ ctx = <<>>
    /\ history = <<>> /\ turns = 0
    /\ resp = <<>> /\ idx = 0
    /\ trace = <<>> /\ mcalls = <<>>
    /\ caller = <<>>
    /\ fault = "none"

\* _handle_result is not running.
HandleIdle == hpc = "idle" /\ raw = <<>> /\ parsed = <<>>

\* AgentPool.run_agent is not running.
PoolIdle ==
    /\ ppc = "idle"
    /\ prole = <<>> /\ ptid = "" /\ pstore = <<>>
    /\ registry = {} /\ iteration = 0
    /\ presp = <<>> /\ pidx = 0 /\ final = <<>>
    /\ proc = "none" /\ presult = <<>>
    /\ ran = {} /\ refused = {} /\ pexc = "none" /\ pwrites = <<>>

\* No SharedMemory method is called.
StoreIdle == mfiles = <<>> /\ mlog = <<>> /\ mop = "none" /\ mret = <<>>

\* SwarmTool.execute is not called.
ToolIdle ==
    /\ tpc = "idle"
    /\ disk = <<>> /\ torigin = <<>> /\ tsession = <<>>
    /\ tgraph = <<>> /\ tleft = {} /\ tcall = 0 /\ twrites = <<>>

\* No planner answer is being parsed.
ParseIdle ==
    /\ qpc = "idle"
    /\ qcontent = <<>> /\ qbody = <<>> /\ qloaded = <<>> /\ qvalid = <<>>

\* AgentLoop.run has not been called.
LoopIdle ==
    /\ lpc = "idle"
    /\ running = FALSE
    /\ lmsg = <<>> /\ sessions = <<>> /\ outbox = <<>>
    /\ consumed = 0 /\ liter = 0
    /\ lcalls = <<>> /\ acts = <<>> /\ stopMark = <<>>

OthersIdle == PoolIdle /\ StoreIdle /\ ToolIdle /\ ParseIdle /\ LoopIdle

----------------------------------------------------------------------------
(* AgentResult values *)

AgentResult(role, tid, output, status) ==
    [role |-> role, task_id |-> tid, task |-> TaskText(tid),
     output |-> output, status |-> status]

\* A rejection that does not say which role.
UnknownRoleResultUnnamed(role, tid) ==
    AgentResult(role, tid, <<"Error: Unknown role">>, "error")

\* orchestrator.py 191-194
UnknownRoleResult(role, tid) ==
    AgentResult(role, tid, <<"Error: Unknown role '", role, "'">>, "error")

\* An error result that drops the exception.
ExceptionResultWithoutText(role, tid, exctext) ==
    AgentResult(role, tid, <<"Error: ">>, "error")

\* orchestrator.py 206-210: gather handed back the exception of task tid
ExceptionResult(role, tid, exctext) ==
    AgentResult(role, tid, <<"Error: ">> \o exctext, "error")

\* pool.py 79-95: what run_agent returns for each way its body can end
RunAgentResult(role, tid, how) ==
    CASE how = "ok"      -> AgentResult(role, tid, AgentOutput(tid), "ok")
      [] how = "timeout" -> AgentResult(role, tid, <<"Agent timed out.">>, "timeout")
      [] how = "error"   -> AgentResult(role, tid, <<"Error: ">> \o ExcText(tid), "error")

----------------------------------------------------------------------------
(* SharedMemory *)

\* memory.py 30: the stem of f"{agent_name}.{key}.md"
Stem(agent_name, key) == <<agent_name, ".", key>>

\* memory.py 28-34
MemWrite(fs, agent_name, key, content) ==
    [s \in DOMAIN fs \cup {Stem(agent_name, key)} |->
        IF s = Stem(agent_name, key) THEN content ELSE fs[s]]

\* memory.py 66-69: _final_report.md, which the *.md glob of read_all matches
WriteFinalReport(fs, text) ==
    [s \in DOMAIN fs \cup {<<"_final_report">>} |->
        IF s = <<"_final_report">> THEN text ELSE fs[s]]

\* sorted(): the order of file stems; role names first, then keys
RoleRank(r) == CASE r = "_final_report" -> 0 [] r = "coder" -> 1
                 [] r = "ghost" -> 2 [] r = "researcher" -> 3
TidRank(t) == CHOOSE i \in 1..Len(TidName) : TidName[i] = t
StemLess(a, b) ==
    \/ RoleRank(a[1]) < RoleRank(b[1])
    \/ a[1] = b[1] /\ Len(a) = 3 /\ Len(b) = 3 /\ TidRank(a[3]) < TidRank(b[3])

RECURSIVE SortedStems(_)
SortedStems(S) ==
    IF S = {} THEN <<>>
    ELSE LET m == CHOOSE x \in S : \A y \in S \ {x} : StemLess(x, y)
         IN  <<m>> \o SortedStems(S \ {m})

\* memory.py 43-48
ReadAll(fs) == SortedStems(DOMAIN fs)

\* memory.py 50-59: the header, then one part per artifact
GetBriefing(fs) ==
    IF DOMAIN fs = {} THEN <<NoPriorFindings>>
    ELSE <<<<"# Prior findings from other agents">>>> \o
         [i \in 1..Len(ReadAll(fs)) |-> <<ReadAll(fs)[i], fs[ReadAll(fs)[i]]>>]

----------------------------------------------------------------------------
(* Orchestrator.handle *)

Unsettled == {"launched", "running"}
Outcomes == {"ok", "timeout", "error", "raise"}

\* handle has been entered and nothing has happened yet.
OrchInit ==
    /\ pc = "plan"
    /\ graph = EmptyGraph
    /\ completed = EmptyGraph
    /\ pending = {}
    /\ tstate = [t \in TaskIds |-> "idle"]
    /\ briefing = [t \in TaskIds |-> <<>>]
    /\ files = EmptyGraph
    /\ report = <<>>
    /\ wave = 0
    /\ waveOf = [t \in TaskIds |-> 0]
    /\ passOf = [t \in TaskIds |-> 0]
    /\ execCalls = [t \in TaskIds |-> 0]
    /\ rejected = [t \in TaskIds |-> 0]
    /\ calls = [dispatch |-> 0, merge |-> 0, chat |-> 0]

Init == OrchInit /\ SwarmIdle /\ HandleIdle /\ OthersIdle

\* A planner that takes the empty graph for a plan.
NoTasksNever(g) == FALSE

\* handle 62: not task_graph
NoTasks(g) == DOMAIN g = {}

\* handle 59-68: _plan answered and its text parsed to graph g.  An empty
\* graph returns the fixed message; any other enters _dispatch (165-166).
Plan ==
    /\ pc = "plan"
    /\ \E g \in Graphs :
        /\ graph' = g
        /\ IF NoTasks(g)
           THEN /\ report' = CouldNotDecompose
                /\ pc' = "done"
                /\ UNCHANGED <<pending, calls>>
           ELSE /\ pc' = "dispatch"
                /\ pending' = DOMAIN g
                /\ calls' = [calls EXCEPT !.dispatch = @ + 1]
                /\ UNCHANGED report
    /\ UNCHANGED <<completed, tstate, briefing, files, wave, waveOf, passOf,
                   execCalls, rejected>>
    /\ UNCHANGED <<svars, hvars, xvars>>

\* handle 59 / _plan 119: the planner's model call raises; handle has no
\* handler for it.
PlanRaises ==
    /\ pc = "plan"
    /\ pc' = "raised"
    /\ UNCHANGED <<graph, completed, pending, tstate, briefing, files,
                   report, wave, waveOf, passOf, execCalls, rejected, calls>>
    /\ UNCHANGED <<svars, hvars, xvars>>

\* Readiness that waits for dependencies that ended well.
ReadyAfterSuccess(g, pend, comp) ==
    {tid \in pend : \A d \in g[tid].depends :
                        d \in DOMAIN comp /\ comp[d].status = "ok"}

\* Readiness that lets one task through per pass.
ReadyOneAtATime(g, pend, comp) ==
    LET all == {tid \in pend : \A d \in g[tid].depends : d \in DOMAIN comp}
    IN  IF all = {} THEN {}
        ELSE {CHOOSE tid \in all : \A u \in all : TidRank(tid) <= TidRank(u)}

\* Readiness with any() in place of all().
ReadyAnyDependency(g, pend, comp) ==
    {tid \in pend : \E d \in g[tid].depends : d \in DOMAIN comp}

\* Readiness that does not look at the dependencies.
ReadyIgnoringDependencies(g, pend, comp) == pend

\* _dispatch 170-174
Ready(g, pend, comp) ==
    {tid \in pend : \A d \in g[tid].depends : d \in DOMAIN comp}

\* A dispatcher that forgets pending.discard.
DiscardNothing(pend, done) == pend

\* _dispatch 195, 213: pending.discard(tid) for every tid of done
Discard(pend, done) == pend \ done

\* _dispatch 168, 218: pending is empty, the loop ends and completed is
\* returned.
DispatchReturn ==
    /\ pc = "dispatch"
    /\ pending = {}
    /\ pc' = "merge"
    /\ UNCHANGED <<graph, completed, pending, tstate, briefing, files,
                   report, wave, waveOf, passOf, execCalls, rejected, calls>>
    /\ UNCHANGED <<svars, hvars, xvars>>

\* A deadlock that is logged without leaving the loop.
DispatchDeadlockSpins ==
    /\ pc = "dispatch"
    /\ pending # {}
    /\ Ready(graph, pending, completed) = {}
    /\ UNCHANGED vars
    /\ UNCHANGED <<svars, hvars, xvars>>

\* A deadlock that throws the partial result away.
DispatchDeadlockDiscards ==
    /\ pc = "dispatch"
    /\ pending # {}
    /\ Ready(graph, pending, completed) = {}
    /\ pc' = "merge"
    /\ completed' = EmptyGraph
    /\ UNCHANGED <<graph, pending, tstate, briefing, files,
                   report, wave, waveOf, passOf, execCalls, rejected, calls>>
    /\ UNCHANGED <<svars, hvars, xvars>>

\* _dispatch 176-178, 218: nothing is ready, break and return completed.
DispatchDeadlock ==
    /\ pc = "dispatch"
    /\ pending # {}
    /\ Ready(graph, pending, completed) = {}
    /\ pc' = "merge"
    /\ UNCHANGED <<graph, completed, pending, tstate, briefing, files,
                   report, wave, waveOf, passOf, execCalls, rejected, calls>>
    /\ UNCHANGED <<svars, hvars, xvars>>

\* _dispatch 168: the passes of the while loop made so far.  Every pass
\* takes up at least one task (176-178), so the latest pass any task was
\* taken up in is their number.
Passes ==
    CHOOSE n \in 0..MaxTasks :
        /\ \A t \in TaskIds : passOf[t] <= n
        /\ n > 0 => \E t \in TaskIds : passOf[t] = n

\* _dispatch 185-203: one pass over ready.  A task of unknown role is
\* completed on the spot; for every other one a run_agent coroutine is
\* made, and the batch, when not empty, is handed to asyncio.gather.
DispatchLaunch ==
    /\ pc = "dispatch"
    /\ pending # {}
    /\ LET ready == Ready(graph, pending, completed)
           unknown == {t \in ready : graph[t].role \notin Catalog}
           coros == ready \ unknown
       IN  /\ ready # {}
           /\ completed' =
                [t \in DOMAIN completed \cup unknown |->
                    IF t \in unknown
                    THEN UnknownRoleResult(graph[t].role, t)
                    ELSE completed[t]]
           /\ pending' = Discard(pending, unknown)
           /\ rejected' = [t \in TaskIds |->
                              IF t \in unknown THEN rejected[t] + 1
                              ELSE rejected[t]]
           /\ execCalls' = [t \in TaskIds |->
                              IF t \in coros THEN execCalls[t] + 1
                              ELSE execCalls[t]]
           /\ tstate' = [t \in TaskIds |->
                              IF t \in coros THEN "launched" ELSE tstate[t]]
           /\ passOf' = [t \in TaskIds |->
                              IF t \in ready THEN Passes + 1 ELSE passOf[t]]
           /\ IF coros # {}
              THEN /\ pc' = "gather"
                   /\ wave' = wave + 1
                   /\ waveOf' = [t \in TaskIds |->
                                   IF t \in coros THEN wave + 1 ELSE waveOf[t]]
              ELSE UNCHANGED <<pc, wave, waveOf>>
    /\ UNCHANGED <<graph, briefing, files, report, calls>>
    /\ UNCHANGED <<svars, hvars, xvars>>

\* The tasks asyncio.gather is waiting for.
Batch == {t \in TaskIds : waveOf[t] = wave /\ wave > 0}

\* run_agent 77: an agent that ended well writes its output as an artifact
FilesAfter(fs, role, tid, how) ==
    IF how = "ok" THEN MemWrite(fs, role, tid, AgentOutput(tid)) ELSE fs

\* run_agent 68-74, _run_llm_loop 177, _run_claude_code 101: the first step
\* of the coroutine reads the briefing and then suspends at its first await
\* (the model call, the subprocess).
AgentStart(t) ==
    /\ pc = "gather"
    /\ tstate[t] = "launched"
    /\ briefing' = [briefing EXCEPT ![t] = GetBriefing(files)]
    /\ tstate' = [tstate EXCEPT ![t] = "running"]
    /\ UNCHANGED <<pc, graph, completed, pending, files, report, wave,
                   waveOf, passOf, execCalls, rejected, calls>>
    /\ UNCHANGED <<svars, hvars, xvars>>

\* The same first step when nothing in it suspends: _run_claude_code 113-115
\* returns at once when no claude binary is found, _run_llm_loop 199-237 when
\* max_iterations is 0; an exception before the first await is caught at
\* run_agent 89.  The coroutine runs through to its return in one step.
AgentRunsThrough(t) ==
    /\ pc = "gather"
    /\ tstate[t] = "launched"
    /\ \E how \in {"ok", "error"} :
        /\ briefing' = [briefing EXCEPT ![t] = GetBriefing(files)]
        /\ files' = FilesAfter(files, graph[t].role, t, how)
        /\ tstate' = [tstate EXCEPT ![t] = how]
    /\ UNCHANGED <<pc, graph, completed, pending, report, wave, waveOf, passOf,
                   execCalls, rejected, calls>>
    /\ UNCHANGED <<svars, hvars, xvars>>

\* run_agent 76-95 after a suspension: the body returned ("ok"), timed out,
\* raised an Exception that run_agent catches ("error"), or the call
\* raised to gather ("raise").  asyncio runs the first step of every
\* coroutine of the batch before it resumes any of them.
AgentSettle(t) ==
    /\ pc = "gather"
    /\ tstate[t] = "running"
    /\ \A u \in Batch : tstate[u] # "launched"
    /\ \E how \in Outcomes :
        /\ files' = FilesAfter(files, graph[t].role, t, how)
        /\ tstate' = [tstate EXCEPT ![t] = how]
    /\ UNCHANGED <<pc, graph, completed, pending, briefing, report, wave,
                   waveOf, passOf, execCalls, rejected, calls>>
    /\ UNCHANGED <<svars, hvars, xvars>>

\* A wait that returns at the first coroutine to settle.
FirstSettled(ts, batch) == \E t \in batch : ts[t] \in Outcomes

\* asyncio.gather(..., return_exceptions=True) returns when every
\* coroutine of the batch has returned or raised.
BatchSettled(ts, batch) == \A t \in batch : ts[t] \in Outcomes

\* _dispatch 204-213: what the result of gather for tid is stored as
StoredResult(role, tid, how) ==
    IF how = "raise" THEN ExceptionResult(role, tid, ExcText(tid))
    ELSE RunAgentResult(role, tid, how)

\* _dispatch 201-216: gather returned; every result of the batch is stored.
GatherDone ==
    /\ pc = "gather"
    /\ BatchSettled(tstate, Batch)
    /\ LET done == {t \in Batch : tstate[t] \in Outcomes}
       IN  /\ completed' =
                [t \in DOMAIN completed \cup done |->
                    IF t \in done
                    THEN StoredResult(graph[t].role, t, tstate[t])
                    ELSE completed[t]]
           /\ pending' = Discard(pending, done)
    /\ pc' = "dispatch"
    /\ UNCHANGED <<graph, tstate, briefing, files, report, wave, waveOf, passOf,
                   execCalls, rejected, calls>>
    /\ UNCHANGED <<svars, hvars, xvars>>

\* _merge 228: the identity shortcut applies
OnlyOne(results) == Cardinality(DOMAIN results) = 1

\* A shortcut that formats the one result as the synthesis prompt does.
OnlyOutputFormatted(results) ==
    <<"**Output:**">> \o results[CHOOSE t \in DOMAIN results : TRUE].output

\* _merge 229-230
OnlyOutput(results) == results[CHOOSE t \in DOMAIN results : TRUE].output

\* response.content of the synthesis call, when it is not empty
Synthesis == <<"synthesized report">>

\* handle 73-77 with _merge 228-230: one result, its output is the report.
MergeSingle ==
    /\ pc = "merge"
    /\ OnlyOne(completed)
    /\ report' = OnlyOutput(completed)
    /\ files' = WriteFinalReport(files, report')
    /\ calls' = [calls EXCEPT !.merge = @ + 1]
    /\ pc' = "done"
    /\ UNCHANGED <<graph, completed, pending, tstate, briefing, wave,
                   waveOf, passOf, execCalls, rejected>>
    /\ UNCHANGED <<svars, hvars, xvars>>

\* handle 73-77 with _merge 232-270: the synthesis call answers, with a
\* text or with empty content.
MergeSynthesize ==
    /\ pc = "merge"
    /\ ~OnlyOne(completed)
    /\ \E content \in {Synthesis, <<>>} :
        report' = IF content # <<>> THEN content ELSE FailedToSynthesize
    /\ files' = WriteFinalReport(files, report')
    /\ calls' = [calls EXCEPT !.merge = @ + 1, !.chat = @ + 1]
    /\ pc' = "done"
    /\ UNCHANGED <<graph, completed, pending, tstate, briefing, wave,
                   waveOf, passOf, execCalls, rejected>>
    /\ UNCHANGED <<svars, hvars, xvars>>

\* _merge 263: the synthesis call raises; neither _merge nor handle
\* catches it.
MergeRaises ==
    /\ pc = "merge"
    /\ ~OnlyOne(completed)
    /\ calls' = [calls EXCEPT !.merge = @ + 1, !.chat = @ + 1]
    /\ pc' = "raised"
    /\ UNCHANGED <<graph, completed, pending, tstate, briefing, files,
                   report, wave, waveOf, passOf, execCalls, rejected>>
    /\ UNCHANGED <<svars, hvars, xvars>>

Next ==
    \/ Plan
    \/ PlanRaises
    \/ DispatchReturn
    \/ DispatchDeadlock
    \/ DispatchLaunch
    \/ \E t \in TaskIds : AgentStart(t)
    \/ \E t \in TaskIds : AgentRunsThrough(t)
    \/ \E t \in TaskIds : AgentSettle(t)
    \/ GatherDone
    \/ MergeSingle
    \/ MergeSynthesize
    \/ MergeRaises

Spec == Init /\ [][Next]_allvars

\* The steps of _dispatch and of the run_agent coroutines it gathers.
DispatchStep ==
    \/ DispatchReturn
    \/ DispatchDeadlock
    \/ DispatchLaunch
    \/ \E t \in TaskIds : AgentStart(t) \/ AgentRunsThrough(t) \/ AgentSettle(t)
    \/ GatherDone

\* The event loop keeps running _dispatch and the coroutines of its batch,
\* and every run_agent invocation returns or raises.
FairSpec == Spec /\ WF_allvars(DispatchStep)

----------------------------------------------------------------------------
(* Vocabulary of the properties *)

\* Every dependency names a task of the graph.
DepsExist(g) == \A t \in DOMAIN g : g[t].depends \subseteq DOMAIN g

RECURSIVE ReachFrom(_, _)
\* The ids reachable from S along dependencies.
ReachFrom(g, S) ==
    LET N == S \cup UNION {g[t].depends : t \in S \cap DOMAIN g}
    IN  IF N = S THEN S ELSE ReachFrom(g, N)

\* No task depends on itself, directly or through others.
Acyclic(g) == \A t \in DOMAIN g : t \notin ReachFrom(g, g[t].depends)

RECURSIVE Grow(_, _)
Grow(g, R) ==
    LET N == {t \in DOMAIN g : g[t].depends \subseteq R}
    IN  IF N = R THEN R ELSE Grow(g, N)

\* The tasks that no cycle and no unknown dependency blocks, directly or
\* transitively.
Unblocked(g) == Grow(g, {})

Returned == pc \in {"merge", "done"}
Visits(t) == execCalls[t] + rejected[t]

----------------------------------------------------------------------------
(* Properties *)

\* C1: for an acyclic graph whose dependencies all name tasks of the graph,
\* _dispatch returns a result for exactly the ids of the graph, and each id
\* was visited (handed to run_agent or rejected for its role) exactly once.
DispatchVisitsEveryTaskOnce ==
    (Returned /\ DOMAIN graph # {} /\ Acyclic(graph) /\ DepsExist(graph)) =>
        /\ DOMAIN completed = DOMAIN graph
        /\ \A t \in DOMAIN graph : Visits(t) = 1
        /\ \A t \in TaskIds \ DOMAIN graph : Visits(t) = 0

DispatchVisitsEveryTaskOnceWitness ==
    /\ pc = "merge"
    /\ Cardinality(DOMAIN graph) = 3
    /\ Acyclic(graph) /\ DepsExist(graph)
    /\ wave = 2
    /\ \E t \in DOMAIN graph : Cardinality(graph[t].depends) = 2
    /\ \E t \in DOMAIN graph : rejected[t] = 1
    /\ \E t \in DOMAIN graph : tstate[t] = "raise"

\* C2: a task whose run_agent has been made has every id of its depends
\* list in completed, and each of those dependencies has settled.
StartAfterDependencies ==
    \A t \in TaskIds :
        tstate[t] # "idle" =>
            /\ t \in DOMAIN graph
            /\ \A d \in graph[t].depends :
                /\ d \in DOMAIN completed
                /\ tstate[d] \in Outcomes \/ rejected[d] = 1

StartAfterDependenciesWitness ==
    \E t \in TaskIds :
        /\ tstate[t] = "running"
        /\ Cardinality(graph[t].depends) = 2
        /\ \E d \in graph[t].depends : tstate[d] = "timeout"

\* C3: while a task of a later wave exists, every task launched in an
\* earlier wave has settled and its result is stored; and whenever the
\* dispatcher is not waiting in gather (so also when it computes the next
\* wave), no run_agent invocation is in flight.
WaveBarrier ==
    /\ \A t, u \in TaskIds :
        (waveOf[t] > 0 /\ waveOf[t] < waveOf[u]) =>
            /\ tstate[t] \in Outcomes
            /\ t \in DOMAIN completed
    /\ pc # "gather" => \A t \in TaskIds : tstate[t] \notin Unsettled

WaveBarrierWitness ==
    /\ wave = 2
    /\ \E u \in TaskIds : waveOf[u] = 2 /\ tstate[u] = "launched"
    /\ Cardinality({t \in TaskIds : waveOf[t] = 1}) = 2
    /\ \E t \in TaskIds : waveOf[t] = 1 /\ tstate[t] = "raise"

\* C4: when _dispatch returns, deadlocked or not, completed holds a result
\* for exactly the tasks that are not blocked by a cycle or an unknown
\* dependency, the blocked ones are still pending, and handle goes on to
\* merge; for the cycle t1 -> t2 -> t1 the map is empty.
DeadlockReturnsPartial ==
    Returned =>
        /\ DOMAIN completed = Unblocked(graph)
        /\ pending = DOMAIN graph \ Unblocked(graph)
        /\ (/\ DOMAIN graph = {"t1", "t2"}
            /\ graph["t1"].depends = {"t2"}
            /\ graph["t2"].depends = {"t1"}) => DOMAIN completed = {}

DeadlockReturnsPartialWitness ==
    /\ pc = "merge"
    /\ Cardinality(DOMAIN graph) = 3
    /\ "t1" \in DOMAIN completed
    /\ graph["t2"].depends = {"t2", "t1"}
    /\ graph["t3"].depends = {"t2"}
    /\ pending = {"t2", "t3"}

\* C5: a task whose run_agent raised is stored with status error and the
\* exception text in its output; the other tasks of its wave are stored
\* with their own results, and every task whose dependencies are complete
\* has been run by the time _dispatch returns.
RaisingTaskContained ==
    /\ \A t \in TaskIds :
        (tstate[t] = "raise" /\ (pc # "gather" \/ waveOf[t] < wave)) =>
            /\ t \in DOMAIN completed
            /\ completed[t].status = "error"
            /\ completed[t].task_id = t
            /\ IsInfix(ExcText(t), completed[t].output)
            /\ \A u \in TaskIds :
                waveOf[u] = waveOf[t] =>
                    /\ u \in DOMAIN completed
                    /\ completed[u].task_id = u
                    /\ tstate[u] = "ok" =>
                        /\ completed[u].status = "ok"
                        /\ completed[u].output = AgentOutput(u)
    /\ Returned =>
        \A u \in DOMAIN graph :
            graph[u].depends \subseteq DOMAIN completed =>
                u \in DOMAIN completed

RaisingTaskContainedWitness ==
    /\ pc = "merge"
    /\ \E t, u, v \in TaskIds :
        /\ t # u
        /\ waveOf[t] = 1 /\ waveOf[u] = 1 /\ waveOf[v] = 2
        /\ tstate[t] = "raise" /\ tstate[u] = "ok" /\ tstate[v] = "ok"
        /\ t \in graph[v].depends
        /\ v \in DOMAIN completed

\* C6: a task whose role is not in the catalog is never handed to
\* run_agent; its result has status error and an output that contains the
\* role name; the tasks of known roles are still run.
UnknownRoleRejected ==
    \A t \in DOMAIN graph :
        IF graph[t].role \notin Catalog
        THEN /\ execCalls[t] = 0
             /\ tstate[t] = "idle"
             /\ t \in DOMAIN completed =>
                    /\ completed[t].status = "error"
                    /\ Contains(completed[t].output, graph[t].role)
                    /\ rejected[t] = 1
             /\ (Returned /\ t \in Unblocked(graph)) => t \in DOMAIN completed
        ELSE /\ rejected[t] = 0
             /\ t \in DOMAIN completed => execCalls[t] = 1
             /\ (Returned /\ t \in Unblocked(graph)) => t \in DOMAIN completed

UnknownRoleRejectedWitness ==
    /\ pc = "merge"
    /\ \E t, u, v \in DOMAIN completed :
        /\ graph[t].role = "ghost" /\ graph[t].depends = {}
        /\ graph[u].role = "coder" /\ graph[u].depends = {}
        /\ graph[v].role = "researcher" /\ graph[v].depends = {t}
        /\ completed[u].status = "ok"
        /\ completed[v].status = "ok"

\* C7: a result once stored in completed is never replaced or removed, and
\* run_agent is invoked at most once per task id, for every graph.
CompletedAtMostOnce ==
    [][/\ \A t \in DOMAIN completed :
            t \in DOMAIN completed' /\ completed'[t] = completed[t]
       /\ \A t \in TaskIds : execCalls'[t] <= 1 /\ Visits(t)' <= 1]_vars

CompletedAtMostOnceWitness ==
    /\ pc = "gather"
    /\ wave = 2
    /\ ~Acyclic(graph)
    /\ DOMAIN completed # {}
    /\ \E t \in TaskIds : waveOf[t] = 2 /\ tstate[t] = "running"

\* The part of a briefing that shows the artifact of task u.
ArtifactPart(u) == <<Stem(graph[u].role, u), AgentOutput(u)>>

\* C8: the briefing a task read shows no artifact written by another task
\* of the same wave.
SameWaveIsolation ==
    \A t, u \in TaskIds :
        (t # u /\ waveOf[t] > 0 /\ waveOf[t] = waveOf[u]) =>
            ~Contains(briefing[t], ArtifactPart(u))

\* C9: an empty task graph ends handle with the fixed message; _dispatch,
\* run_agent, _merge and the synthesis call were not invoked.
EmptyGraphNotDispatched ==
    (pc \notin {"plan", "raised"} /\ DOMAIN graph = {}) =>
        /\ pc = "done"
        /\ report = CouldNotDecompose
        /\ calls = [dispatch |-> 0, merge |-> 0, chat |-> 0]
        /\ \A t \in TaskIds : Visits(t) = 0

EmptyGraphNotDispatchedWitness ==
    pc = "done" /\ DOMAIN graph = {} /\ report = CouldNotDecompose

\* C10 as stated: a result map of one entry is returned as that entry's
\* output with no model call, and for every single-task graph the report
\* is that task's output.
MergeIdentityForSingleTaskGraph ==
    pc = "done" =>
        /\ Cardinality(DOMAIN completed) = 1 =>
            /\ calls.chat = 0
            /\ \A t \in DOMAIN completed : report = completed[t].output
        /\ Cardinality(DOMAIN graph) = 1 =>
            /\ calls.chat = 0
            /\ DOMAIN completed = DOMAIN graph
            /\ \A t \in DOMAIN graph : report = completed[t].output

\* C10 amended: a result map of one entry is returned as that entry's
\* output with no model call, and for a single-task graph whose task has
\* no dependency the report is that task's output.
MergeIdentity ==
    pc = "done" =>
        /\ Cardinality(DOMAIN completed) = 1 =>
            /\ calls.chat = 0
            /\ calls.merge = 1
            /\ \A t \in DOMAIN completed : report = completed[t].output
        /\ \A t \in DOMAIN graph :
            (DOMAIN graph = {t} /\ graph[t].depends = {}) =>
                /\ calls.chat = 0
                /\ t \in DOMAIN completed
                /\ report = completed[t].output
                /\ tstate[t] = "ok" => report = AgentOutput(t)

MergeIdentityWitness ==
    /\ pc = "done"
    /\ DOMAIN graph = {"t1"}
    /\ tstate["t1"] = "ok"
    /\ report = AgentOutput("t1")

\* The passes that have ended: the latest one is still open while its
\* batch is gathered.
PassesEnded == IF pc = "gather" THEN Passes - 1 ELSE Passes

\* C33: for every task graph, _dispatch returns once every run_agent
\* invocation returns or raises: every pass of its loop that has ended has
\* taken at least one id out of pending, a pass that is open has a batch
\* of pending tasks to wait for, and a pass that finds nothing ready ends
\* the loop.
DispatchTerminates ==
    /\ [](pc \in {"dispatch", "gather"} =>
            /\ Cardinality(pending) + PassesEnded <= Cardinality(DOMAIN graph)
            /\ pc = "gather" => (Batch # {} /\ Batch \subseteq pending))
    /\ [][(pc = "dispatch" /\ pc' = "dispatch")
            => (pending' \subseteq pending /\ pending' # pending)]_allvars
    /\ [][(pc = "gather" /\ pc' = "dispatch")
            => (pending' \subseteq pending /\ pending' # pending)]_allvars
    /\ [][(pc = "dispatch" /\ Ready(graph, pending, completed) = {})
            => pc' = "merge"]_allvars
    /\ (pc = "dispatch") ~> (pc = "merge")

\* _dispatch has returned for a graph with a cycle and an unknown role,
\* after two passes.
DispatchTerminatesWitness ==
    /\ pc = "merge"
    /\ Cardinality(DOMAIN graph) = 3
    /\ ~Acyclic(graph)
    /\ \E t \in DOMAIN graph : rejected[t] = 1 /\ passOf[t] = 1
    /\ \E t \in DOMAIN graph : tstate[t] \in Outcomes /\ passOf[t] = 2
    /\ pending # {}

RECURSIVE Depth(_, _)
\* The length of the longest dependency chain that ends in task t, for a
\* task that no cycle and no unknown dependency blocks.
Depth(g, t) ==
    IF g[t].depends = {} THEN 1
    ELSE LET below == {Depth(g, d) : d \in g[t].depends}
         IN  1 + CHOOSE n \in below : \A m \in below : m <= n

\* C34: the tasks a pass of the loop takes up are all the pending tasks
\* whose dependencies are in completed, so the pass that takes a task up
\* has the number of tasks on its longest dependency chain: 1 for a task
\* without dependencies, and for t1 without dependencies and t2 depending
\* on t1 the first pass is t1 and the second is t2.
WaveIsDepth ==
    /\ [](\A t \in TaskIds :
            /\ passOf[t] > 0 =>
                /\ t \in Unblocked(graph)
                /\ passOf[t] = Depth(graph, t)
            /\ (Returned /\ t \in Unblocked(graph)) => passOf[t] > 0)
    /\ [](Passes > 0 =>
            \A n \in 1..Passes : \E t \in TaskIds : passOf[t] = n)
    /\ [][passOf' # passOf =>
            {t \in TaskIds : passOf'[t] # passOf[t]}
                = {t \in pending : graph[t].depends \subseteq DOMAIN completed}
         ]_allvars
    /\ []((/\ Returned
           /\ DOMAIN graph = {"t1", "t2"}
           /\ graph["t1"].depends = {}
           /\ graph["t2"].depends = {"t1"})
            => (passOf["t1"] = 1 /\ passOf["t2"] = 2))

\* t3 depends on t1 and on t2, which depends on t1: three passes.
WaveIsDepthWitness ==
    /\ pc = "merge"
    /\ DOMAIN graph = {"t1", "t2", "t3"}
    /\ graph["t1"].depends = {}
    /\ graph["t2"].depends = {"t1"}
    /\ graph["t3"].depends = {"t1", "t2"}
    /\ passOf = [t \in TaskIds |-> Depth(graph, t)]
    /\ passOf["t3"] = 3

\* The dependencies of task t that are stored with a status other than ok.
FailedDeps(t) ==
    {d \in graph[t].depends \cap DOMAIN completed :
        completed[d].status \in {"error", "timeout"}}

\* C35: a task is taken up as soon as every dependency has a result,
\* whatever its status: when _dispatch has returned, a task all of whose
\* dependencies have results, some of them with status error or timeout
\* (a rejection for an unknown role among them), has been taken up in a
\* pass after theirs and, when its role is known, handed to run_agent.
FailedDependencySatisfies ==
    \A t \in DOMAIN graph :
        /\ (/\ pc = "dispatch"
            /\ t \in pending
            /\ FailedDeps(t) # {}
            /\ graph[t].depends \subseteq DOMAIN completed)
                => t \in Ready(graph, pending, completed)
        /\ (/\ Returned
            /\ FailedDeps(t) # {}
            /\ graph[t].depends \subseteq DOMAIN completed)
                => /\ t \in DOMAIN completed
                   /\ \A d \in graph[t].depends : passOf[t] > passOf[d]
                   /\ graph[t].role \in Catalog => execCalls[t] = 1

\* A task has run after one dependency timed out and another was rejected
\* for its role.
FailedDependencySatisfiesWitness ==
    /\ pc = "merge"
    /\ \E t, d, e \in DOMAIN completed :
        /\ graph[t].depends = {d, e}
        /\ completed[d].status = "timeout"
        /\ rejected[e] = 1 /\ completed[e].status = "error"
        /\ tstate[t] = "ok"
        /\ passOf[t] = 2

\* C11: once _merge has been called it does not raise: handle ends with a
\* report, which is the synthesis text or, when the synthesis call failed
\* or answered nothing, the failure sentinel.
MergeNeverRaises ==
    calls.merge > 0 =>
        /\ pc = "done"
        /\ calls.chat > 0 => report \in {Synthesis, FailedToSynthesize}

----------------------------------------------------------------------------
(* nanobot.agent.swarm: values *)

\* Largest max_turns of a run.
MaxTurns == 2
\* Largest number of tool invocations in one model response.
MaxCalls == 2

\* agents.py 138-194: the names of the predefined agents
AgentNames == {"triage", "coder", "searcher"}

\* A searcher whose factory also lists the handoff to the coder.
FunctionsMeshed(a) ==
    CASE a = "triage"   -> {"handoff_to_coder", "handoff_to_searcher"}
      [] a = "coder"    -> {"_run_claude_code", "handoff_to_triage"}
      [] a = "searcher" -> {"web_search", "handoff_to_triage",
                            "handoff_to_coder"}

\* Agent.functions by __name__ (agents.py 157-160, 173-176, 191-193).  The
\* searcher's search tool is the one its factory leaves to the caller to
\* add (agents.py 187); it stands for any caller-supplied function.
Functions(a) ==
    CASE a = "triage"   -> {"handoff_to_coder", "handoff_to_searcher"}
      [] a = "coder"    -> {"_run_claude_code", "handoff_to_triage"}
      [] a = "searcher" -> {"web_search", "handoff_to_triage"}

FunctionNames == UNION {Functions(a) : a \in AgentNames}
\* The names a model response may ask for: those and one no agent has.
CallNames == FunctionNames \cup {"no_such_function"}

\* swarm.py 291-292: the function has a context_variables parameter
AcceptsCtx(f) == f # "_run_claude_code"

CtxKeys == {"channel", "user"}
CtxValues == {"a", "b"}
\* dicts over CtxKeys: context_variables and the deltas of a SwarmResult
Dicts == UNION {[K -> CtxValues] : K \in SUBSET CtxKeys}
NoDict == [k \in {} |-> "a"]

\* SwarmResult(value, agent, context_variables); agent "" is None
SwarmResult(value, agent, cv) ==
    [value |-> value, agent |-> agent, context_variables |-> cv]

\* What a function can hand back, tagged with its Python type.
Raw(kind, value, num, agent, cv) ==
    [kind |-> kind, value |-> value, num |-> num, agent |-> agent,
     context_variables |-> cv]
RawSwarmResult(value, agent, cv) == Raw("SwarmResult", value, 0, agent, cv)
RawAgent(a) == Raw("Agent", "", 0, a, NoDict)
RawStr(v) == Raw("str", v, 0, "", NoDict)
RawInt(n) == Raw("int", "", n, "", NoDict)
RawNone == Raw("NoneType", "", 0, "", NoDict)
\* an object whose __str__ raises
RawUnprintable == Raw("unprintable", "", 0, "", NoDict)

DigitChar == <<"0", "1", "2", "3", "4", "5", "6", "7", "8", "9">>
RECURSIVE IntStr(_)
\* str(n) of an int n >= 0
IntStr(n) ==
    IF n < 10 THEN DigitChar[n + 1]
    ELSE IntStr(n \div 10) \o DigitChar[(n % 10) + 1]

\* str(raw) for the values that have a string form
Str(r) ==
    CASE r.kind = "str"      -> r.value
      [] r.kind = "int"      -> IntStr(r.num)
      [] r.kind = "NoneType" -> "None"

\* A normalisation that wraps a SwarmResult again, as any other value.
HandleResultRewraps(r) ==
    IF r.kind = "Agent"
    THEN SwarmResult("{\"handoff_to\": \"" \o r.agent \o "\"}", r.agent, NoDict)
    ELSE IF r.kind \in {"unprintable", "SwarmResult"}
    THEN SwarmResult("(function returned non-string result)", "", NoDict)
    ELSE SwarmResult(Str(r), "", NoDict)

\* swarm.py 297-309, _handle_result
HandleResult(r) ==
    IF r.kind = "SwarmResult"
    THEN SwarmResult(r.value, r.agent, r.context_variables)
    ELSE IF r.kind = "Agent"
    THEN SwarmResult("{\"handoff_to\": \"" \o r.agent \o "\"}", r.agent, NoDict)
    ELSE IF r.kind = "unprintable"
    THEN SwarmResult("(function returned non-string result)", "", NoDict)
    ELSE SwarmResult(Str(r), "", NoDict)

\* The values _handle_result is tried on.
RawValues ==
    {RawSwarmResult(v, a, cv) :
        v \in {"", "done"}, a \in AgentNames \cup {""}, cv \in Dicts}
    \cup {RawAgent(a) : a \in AgentNames}
    \cup {RawStr(v) : v \in {"", "ok", "hello"}}
    \cup {RawInt(n) : n \in {0, 7, 42, 120}}
    \cup {RawNone, RawUnprintable}

HandleInit ==
    /\ hpc = "call"
    /\ raw \in RawValues
    /\ parsed = <<>>

\* _handle_result is applied to raw.
Handle ==
    /\ hpc = "call"
    /\ parsed' = HandleResult(raw)
    /\ hpc' = "returned"
    /\ UNCHANGED <<raw, vars, svars, xvars>>

HandleNext == Handle

HandleSpecInit == OrchInit /\ SwarmIdle /\ HandleInit /\ OthersIdle

HandleSpec == HandleSpecInit /\ [][HandleNext]_allvars

\* C20: _handle_result hands a SwarmResult back unchanged; an Agent becomes
\* a result whose agent is that agent and whose value names it; any other
\* value becomes a result with the value's string form, no agent and an
\* empty context delta.
HandleResultNormalizes ==
    hpc = "returned" =>
        /\ raw.kind = "SwarmResult" =>
            /\ parsed.value = raw.value
            /\ parsed.agent = raw.agent
            /\ parsed.context_variables = raw.context_variables
        /\ raw.kind = "Agent" =>
            /\ parsed.agent = raw.agent
            /\ parsed.value = "{\"handoff_to\": \"" \o raw.agent \o "\"}"
            /\ parsed.context_variables = NoDict
        /\ raw.kind \in {"str", "int", "NoneType"} =>
            /\ parsed.agent = ""
            /\ parsed.context_variables = NoDict
            /\ raw = RawStr("ok") => parsed.value = "ok"
            /\ raw = RawStr("hello") => parsed.value = "hello"
            /\ raw = RawInt(42) => parsed.value = "42"
            /\ raw = RawInt(120) => parsed.value = "120"
            /\ raw = RawInt(0) => parsed.value = "0"
            /\ raw = RawNone => parsed.value = "None"
            /\ raw.kind = "str" => parsed.value = raw.value

HandleResultNormalizesWitness ==
    /\ hpc = "returned"
    /\ raw = RawSwarmResult("done", "coder", [k \in {"user"} |-> "b"])
    /\ parsed.agent = "coder"
    /\ parsed.context_variables # NoDict

----------------------------------------------------------------------------
(* Swarm.run *)

\* dict.update the wrong way round: the first value of a key is kept.
CtxKeepFirst(c, d) ==
    [k \in DOMAIN c \cup DOMAIN d |-> IF k \in DOMAIN c THEN c[k] ELSE d[k]]

\* dict.update, swarm.py 255
CtxUpdate(c, d) ==
    [k \in DOMAIN c \cup DOMAIN d |-> IF k \in DOMAIN d THEN d[k] ELSE c[k]]

\* Messages, all of one shape; name, tool_call_id and tool_calls are empty
\* where the Python dict has no such key.
Message(role, content, name, id, tool_calls) ==
    [role |-> role, content |-> content, name |-> name,
     tool_call_id |-> id, tool_calls |-> tool_calls]

\* swarm.py 205-208
FallbackMessage == Message("assistant", "(timeout apology)", "", <<>>, <<>>)
\* swarm.py 265-268
FinalMessage == Message("assistant", "answer", "", <<>>, <<>>)
\* swarm.py 213-229; tc.id is the turn and the position in the response
AssistantToolMessage(turn, names) ==
    Message("assistant", "", "",  <<>>,
            [i \in 1..Len(names) |-> [id |-> <<turn, i>>, name |-> names[i]]])
\* A tool message that carries the id of the response's first call.
ToolMessageOfFirstCall(turn, i, name, content) ==
    Message("tool", content, name, <<turn, 1>>, <<>>)

\* swarm.py 247-252
ToolMessage(turn, i, name, content) ==
    Message("tool", content, name, <<turn, i>>, <<>>)

\* swarm.py 191: active_agent.model or self.default_model; the predefined
\* agents have no model of their own (agents.py 154-194)
AgentModel(a) == "default_model"

\* swarm.py 176, 185, 191-198: what one provider.chat call is given
ModelCallOf(a, c, at) ==
    [agent |-> a,
     model |-> AgentModel(a),
     instructions |-> <<a, IF "channel" \in DOMAIN c THEN c["channel"] ELSE "unknown">>,
     tools |-> Functions(a),
     at |-> at]

\* The tool_calls a model response can carry.
CallLists == UNION {[1..n -> CallNames] : n \in 1..MaxCalls}

\* What the predefined functions return (agents.py 92-131, 27-85), and what
\* a caller-supplied function may.
Returns(f) ==
    CASE f = "handoff_to_coder"    -> {RawSwarmResult("to coder", "coder", NoDict)}
      [] f = "handoff_to_searcher" -> {RawSwarmResult("to searcher", "searcher", NoDict)}
      [] f = "handoff_to_triage"   -> {RawSwarmResult("to triage", "triage", NoDict)}
      [] f = "_run_claude_code"    -> {RawStr("claude output")}
      [] f = "web_search"          ->
            {RawSwarmResult("found", "", cv) :
                cv \in {d \in Dicts : Cardinality(DOMAIN d) <= 1}}
            \cup {RawAgent("coder"), RawStr("ok"), RawInt(42), RawUnprintable}

\* The context_variables a run may be started with.
InitContexts == {NoDict, [k \in {"channel"} |-> "a"],
                 [k \in CtxKeys |-> "b"]}

\* The arguments of run: a list with the user's message and the context
\* dict.
UserMessage == Message("user", "request", "", <<>>, <<>>)
Given(c0) == [messages |-> <<UserMessage>>, context_variables |-> c0]

\* swarm.py 167-168: run works on deepcopy(context_variables) and on
\* list(messages); what it appends to history h and writes to ctx c does
\* not reach the objects of its caller.
CallerAfter(given, h, c) == given

\* swarm.py 166-170
SwarmInit ==
    /\ spc = "loop"
    /\ agent0 \in AgentNames
    /\ ctx0 \in InitContexts
    /\ maxTurns \in 0..MaxTurns
    /\ active = agent0
    /\ ctx = ctx0
    /\ history = <<>>
    /\ turns = 0
    /\ resp = <<>>
    /\ idx = 0
    /\ trace = <<>>
    /\ mcalls = <<>>
    /\ caller = Given(ctx0)
    /\ fault = "none"

\* A loop that runs one turn too many.
LoopGuardOffByOne(t, m) == t <= m

\* swarm.py 172
LoopGuard(t, m) == t < m

\* swarm.py 172, 271-275: the budget is used up, run returns.
BudgetExhausted ==
    /\ spc = "loop"
    /\ ~LoopGuard(turns, maxTurns)
    /\ spc' = "returned"
    /\ UNCHANGED <<agent0, ctx0, maxTurns, active, ctx, history, turns, resp,
                   idx, trace, mcalls, fault>>
    /\ caller' = CallerAfter(caller, history', ctx')
    /\ UNCHANGED <<vars, hvars, xvars>>

\* swarm.py 173-200: the part every turn starts with
BeginTurn ==
    /\ spc = "loop"
    /\ LoopGuard(turns, maxTurns)
    /\ turns' = turns + 1
    /\ mcalls' = Append(mcalls, ModelCallOf(active, ctx, Len(trace)))

\* A timeout that is answered by another turn.
AfterTimeoutRetry == "loop"

\* swarm.py 209: break
AfterTimeout == "returned"

\* swarm.py 201-209: the model call timed out.
ModelTimeout ==
    /\ BeginTurn
    /\ history' = Append(history, FallbackMessage)
    /\ spc' = AfterTimeout
    /\ fault' = "timeout"
    /\ UNCHANGED <<agent0, ctx0, maxTurns, active, ctx, resp, idx, trace>>
    /\ caller' = CallerAfter(caller, history', ctx')
    /\ UNCHANGED <<vars, hvars, xvars>>

\* swarm.py 193-200: provider.chat raised something that is not a timeout;
\* run has no handler for it.
ModelRaises ==
    /\ BeginTurn
    /\ spc' = "raised"
    /\ fault' = "provider"
    /\ UNCHANGED <<agent0, ctx0, maxTurns, active, ctx, history, resp, idx,
                   trace>>
    /\ caller' = CallerAfter(caller, history', ctx')
    /\ UNCHANGED <<vars, hvars, xvars>>

\* swarm.py 263-269: a response without tool calls ends the run.
ModelAnswers ==
    /\ BeginTurn
    /\ history' = Append(history, FinalMessage)
    /\ spc' = "returned"
    /\ UNCHANGED <<agent0, ctx0, maxTurns, active, ctx, resp, idx, trace,
                   fault>>
    /\ caller' = CallerAfter(caller, history', ctx')
    /\ UNCHANGED <<vars, hvars, xvars>>

\* swarm.py 212-229: a response with tool calls.
ModelRequestsTools ==
    /\ BeginTurn
    /\ \E names \in CallLists :
        /\ history' = Append(history, AssistantToolMessage(turns + 1, names))
        /\ resp' = names
    /\ idx' = 1
    /\ spc' = "tools"
    /\ UNCHANGED <<agent0, ctx0, maxTurns, active, ctx, trace, fault>>
    /\ caller' = CallerAfter(caller, history', ctx')
    /\ UNCHANGED <<vars, hvars, xvars>>

\* swarm.py 288
NotFoundText(name) == "Error: function '" \o name \o "' not found"

\* swarm.py 236-238: the functions _execute_function searches
SearchedAgent == active

\* A run that takes the agent of every result, also when it has none.
NextActiveCleared(cur, p) == p.agent

\* A run that never switches the active agent.
NextActiveStays(cur, p) == cur

\* swarm.py 258-262
NextActive(cur, p) == IF p.agent # "" THEN p.agent ELSE cur

\* A run that hands the caller's dict to the functions, not its own ctx.
InjectedCtxOfCaller(c, c0) == c0

\* _execute_function 293: the dict a function's context_variables
\* parameter receives.  A function that changes it in place is not
\* modelled; the functions return their updates.
InjectedCtx(c, c0) == c

\* swarm.py 244-262: the rest of one pass of the for loop, for the value r
\* that _execute_function handed back.
Invoked(name, found, r) ==
    LET p == HandleResult(r)
    IN  /\ history' = Append(history, ToolMessage(turns, idx, name, p.value))
        /\ ctx' = CtxUpdate(ctx, p.context_variables)
        /\ active' = NextActive(active, p)
        /\ trace' = Append(trace,
                [turn |-> turns, i |-> idx, name |-> name,
                 searched |-> SearchedAgent, found |-> found,
                 seen |-> IF found /\ AcceptsCtx(name)
                          THEN <<InjectedCtx(ctx, ctx0)>> ELSE <<>>,
                 delta |-> p.context_variables, handoff |-> p.agent])
        /\ idx' = idx + 1
        /\ spc' = IF idx = Len(resp) THEN "loop" ELSE "tools"
        /\ UNCHANGED <<agent0, ctx0, maxTurns, turns, resp, mcalls, fault>>
        /\ caller' = CallerAfter(caller, history', ctx')
        /\ UNCHANGED <<vars, hvars, xvars>>

\* A lookup that raises for a name it does not know.
ToolNotFoundRaises ==
    /\ spc = "tools"
    /\ resp[idx] \notin Functions(SearchedAgent)
    /\ spc' = "raised"
    /\ fault' = "lookup"
    /\ UNCHANGED <<agent0, ctx0, maxTurns, active, ctx, history, turns, resp,
                   idx, trace, mcalls>>
    /\ caller' = CallerAfter(caller, history', ctx')
    /\ UNCHANGED <<vars, hvars, xvars>>

\* _execute_function 285-288: no function of that name, the error text is
\* the result.
ToolNotFound ==
    /\ spc = "tools"
    /\ resp[idx] \notin Functions(SearchedAgent)
    /\ Invoked(resp[idx], FALSE, RawStr(NotFoundText(resp[idx])))

\* _execute_function 291-295, run 241-242: the function is called and
\* returns.
ToolReturns ==
    /\ spc = "tools"
    /\ resp[idx] \in Functions(SearchedAgent)
    /\ \E r \in Returns(resp[idx]) : Invoked(resp[idx], TRUE, r)

\* _execute_function 295, run 242: the call raises (arguments that do not
\* fit the signature, or the function itself); nothing catches it.
ToolRaises ==
    /\ spc = "tools"
    /\ resp[idx] \in Functions(SearchedAgent)
    /\ spc' = "raised"
    /\ fault' = "handler"
    /\ UNCHANGED <<agent0, ctx0, maxTurns, active, ctx, history, turns, resp,
                   idx, trace, mcalls>>
    /\ caller' = CallerAfter(caller, history', ctx')
    /\ UNCHANGED <<vars, hvars, xvars>>

SwarmNext ==
    \/ BudgetExhausted
    \/ ModelTimeout
    \/ ModelRaises
    \/ ModelAnswers
    \/ ModelRequestsTools
    \/ ToolNotFound
    \/ ToolReturns
    \/ ToolRaises

SwarmSpecInit == OrchInit /\ SwarmInit /\ HandleIdle /\ OthersIdle

SwarmSpec == SwarmSpecInit /\ [][SwarmNext]_allvars

\* Every step of run is taken when it can be: the event loop keeps running
\* the coroutine, and every model call and every function ends.
SwarmFairSpec == SwarmSpec /\ WF_allvars(SwarmNext)

----------------------------------------------------------------------------
(* Properties of Swarm.run *)

\* The agent that is active after the first n invocations of the run.
RECURSIVE ActiveAfter(_)
ActiveAfter(n) ==
    IF n = 0 THEN agent0
    ELSE IF trace[n].handoff # "" THEN trace[n].handoff
    ELSE ActiveAfter(n - 1)

\* The invocations among the first n whose delta holds key k.
Writers(k, n) == {j \in 1..n : k \in DOMAIN trace[j].delta}

LastOf(S) == CHOOSE x \in S : \A y \in S : y <= x

\* The context after the first n invocations, key by key: the value of the
\* last delta that holds the key, else the caller's value.
ExpectedCtx(n) ==
    [k \in {c \in CtxKeys : Writers(c, n) # {} \/ c \in DOMAIN ctx0} |->
        IF Writers(k, n) # {} THEN trace[LastOf(Writers(k, n))].delta[k]
        ELSE ctx0[k]]

LastMessage == history[Len(history)]

LastEntry == trace[Len(trace)]

\* C12: a function that raises during an invocation does not end run with
\* an exception.
HandlerFailureContained == fault = "handler" => spc # "raised"

\* C13: every invocation is looked up among the functions of the agent
\* the model call of its turn was made for.
LookupAmongRequestingAgent ==
    \A j \in 1..Len(trace) : trace[j].searched = mcalls[trace[j].turn].agent

\* C14: every model call is made with the instructions, tools and model of
\* the target of the last handoff before it (the caller's agent when there
\* was none), the active agent is the target of the last handoff, and a
\* run that returned after a handoff in a turn below the budget made a
\* model call after it.
HandoffContinues ==
    /\ \A j \in 1..Len(mcalls) :
        LET a == ActiveAfter(mcalls[j].at)
        IN  /\ mcalls[j].agent = a
            /\ mcalls[j].instructions[1] = a
            /\ mcalls[j].tools = Functions(a)
            /\ mcalls[j].model = AgentModel(a)
    /\ active = ActiveAfter(Len(trace))
    /\ \A n \in 1..Len(trace) :
        (spc = "returned" /\ trace[n].handoff # "" /\ trace[n].turn < maxTurns)
            => /\ Len(mcalls) > trace[n].turn
               /\ mcalls[trace[n].turn + 1].at >= n

HandoffContinuesWitness ==
    /\ spc = "returned"
    /\ agent0 = "triage"
    /\ Len(mcalls) = 2
    /\ mcalls[2].agent = "coder"
    /\ mcalls[2].tools = {"_run_claude_code", "handoff_to_triage"}
    /\ active = "coder"

\* C15: the tool messages follow the assistant message that requested
\* them, one for each tool call and in the order of its tool_calls; the
\* invocations of a turn are numbered 1, 2, ... as they are made; and a
\* function that takes context_variables is given the context with the
\* deltas of every earlier invocation merged.
SequentialInOrder ==
    /\ \A h \in 1..Len(history) :
        history[h].role = "tool" =>
            LET i == history[h].tool_call_id[2]
            IN  /\ h > i
                /\ history[h - i].role = "assistant"
                /\ Len(history[h - i].tool_calls) >= i
                /\ history[h - i].tool_calls[i].id = history[h].tool_call_id
                /\ history[h - i].tool_calls[i].name = history[h].name
    /\ \A h \in 1..Len(history) :
        (history[h].tool_calls # <<>> /\ spc \in {"loop", "returned"}) =>
            /\ Len(history) >= h + Len(history[h].tool_calls)
            /\ \A i \in 1..Len(history[h].tool_calls) :
                /\ history[h + i].role = "tool"
                /\ history[h + i].tool_call_id = history[h].tool_calls[i].id
    /\ \A j \in 1..Len(trace) :
        /\ trace[j].i = (IF j > 1 /\ trace[j - 1].turn = trace[j].turn
                         THEN trace[j - 1].i + 1 ELSE 1)
        /\ j > 1 => trace[j - 1].turn <= trace[j].turn
        /\ trace[j].turn = turns => trace[j].name = resp[trace[j].i]
        /\ trace[j].seen # <<>> => trace[j].seen[1] = ExpectedCtx(j - 1)

SequentialInOrderWitness ==
    /\ Len(trace) >= 2
    /\ trace[1].turn = trace[2].turn
    /\ "user" \notin DOMAIN ctx0
    /\ "user" \in DOMAIN trace[1].delta
    /\ trace[2].seen # <<>>
    /\ "user" \in DOMAIN trace[2].seen[1]

\* C16: at every point of run, and so when it returns, every key of the
\* context holds the value of the last delta applied that holds the key,
\* a key no delta holds has the caller's value, no key of the caller or of
\* a delta is missing, and a delta applied twice gives what it gives
\* applied once.
ContextLastWriteWins ==
    /\ ctx = ExpectedCtx(Len(trace))
    /\ DOMAIN ctx0 \subseteq DOMAIN ctx
    /\ \A j \in 1..Len(trace) : DOMAIN trace[j].delta \subseteq DOMAIN ctx
    /\ \A k \in DOMAIN ctx :
        /\ Writers(k, Len(trace)) = {} => ctx[k] = ctx0[k]
        /\ Writers(k, Len(trace)) # {} =>
            ctx[k] = trace[LastOf(Writers(k, Len(trace)))].delta[k]
    /\ \A d \in Dicts : CtxUpdate(CtxUpdate(ctx, d), d) = CtxUpdate(ctx, d)

ContextLastWriteWinsWitness ==
    /\ spc = "returned"
    /\ \E k \in DOMAIN ctx0 : Writers(k, Len(trace)) = {}
    /\ \E k \in CtxKeys : \E j1, j2 \in Writers(k, Len(trace)) :
        /\ j1 < j2
        /\ trace[j1].delta[k] # trace[j2].delta[k]
        /\ ctx[k] = trace[j2].delta[k]

\* C17: after a model call timed out run has returned; the fallback
\* message is the last message and there is one of it; the timed-out call
\* is the last model call; no function was invoked after it; the agent and
\* the context are the ones reached before it.
TimeoutEndsRun ==
    fault = "timeout" =>
        /\ spc = "returned"
        /\ LastMessage = FallbackMessage
        /\ Cardinality({h \in 1..Len(history) : history[h] = FallbackMessage}) = 1
        /\ Len(mcalls) = turns
        /\ mcalls[Len(mcalls)].at = Len(trace)
        /\ active = mcalls[Len(mcalls)].agent
        /\ active = ActiveAfter(Len(trace))
        /\ ctx = ExpectedCtx(Len(trace))

TimeoutEndsRunWitness ==
    /\ fault = "timeout"
    /\ spc = "returned"
    /\ Len(mcalls) = 2
    /\ active # agent0
    /\ ctx # ctx0
    /\ LastMessage = FallbackMessage

\* What holds of the budget in every state of run.
BudgetKept ==
    /\ Len(mcalls) <= maxTurns
    /\ turns <= maxTurns
    /\ (spc = "returned" /\ maxTurns = 0) =>
        /\ history = <<>>
        /\ mcalls = <<>>
        /\ trace = <<>>
        /\ active = agent0
    /\ (spc = "returned" /\ fault = "none" /\ Len(mcalls) > 0
            /\ mcalls[Len(mcalls)].at < Len(trace)) =>
        /\ turns = maxTurns
        /\ LastMessage.role = "tool"
        /\ Len(history) = Len(mcalls) + Len(trace)

\* C18: run makes at most max_turns model calls and ends; when the last
\* model call of the budget asked for tools, run returns with the tool
\* result of its last invocation as the last message and one message for
\* each model call and each invocation, none more; with max_turns = 0 it
\* returns no message and the caller's agent.
SwarmRunBounded ==
    /\ []BudgetKept
    /\ <>(spc \in {"returned", "raised"})

SwarmRunBoundedWitness ==
    /\ spc = "returned"
    /\ fault = "none"
    /\ maxTurns = MaxTurns
    /\ turns = maxTurns
    /\ Len(trace) > 0
    /\ LastEntry.turn = maxTurns
    /\ LastMessage.role = "tool"

\* A step of run at an invocation whose name the active agent has no
\* function for.
UnknownFunctionStep ==
    /\ spc = "tools"
    /\ resp[idx] \notin Functions(active)

\* C19: an invocation of a name that is none of the active agent's
\* functions appends a tool message with the error text for that name;
\* run does not raise, no function is given the context, and the active
\* agent and the context stay as they were.
UnknownFunctionContained ==
    [][UnknownFunctionStep =>
        /\ spc' # "raised"
        /\ fault' = fault
        /\ active' = active
        /\ ctx' = ctx
        /\ Len(history') = Len(history) + 1
        /\ history'[Len(history')] =
            Message("tool", "Error: function '" \o resp[idx] \o "' not found",
                    resp[idx], <<turns, idx>>, <<>>)
        /\ Len(trace') = Len(trace) + 1
        /\ ~trace'[Len(trace')].found
        /\ trace'[Len(trace')].seen = <<>>]_allvars

UnknownFunctionContainedWitness ==
    /\ Len(trace) > 0
    /\ ~LastEntry.found
    /\ LastEntry.name = "no_such_function"
    /\ LastMessage.role = "tool"
    /\ LastMessage.content = "Error: function 'no_such_function' not found"
    /\ active = agent0
    /\ ctx = ctx0

\* The invocations so far that returned a handoff target.
Handoffs == {n \in 1..Len(trace) : trace[n].handoff # ""}

\* C21: the active agent of run is always one of the agents: the caller's
\* as long as no function has returned a handoff target, afterwards the
\* target of the latest one; and an invocation whose result has no
\* handoff target leaves the active agent as it was.
ActiveAgentDefined ==
    /\ [](spc # "idle" =>
            /\ active \in AgentNames
            /\ Handoffs = {} => active = agent0
            /\ Handoffs # {} => active = trace[LastOf(Handoffs)].handoff)
    /\ [][(Len(trace') = Len(trace) + 1 /\ trace'[Len(trace')].handoff = "")
            => active' = active]_allvars

ActiveAgentDefinedWitness ==
    /\ Len(trace) = 2
    /\ trace[1].handoff = "searcher"
    /\ trace[2].handoff = ""
    /\ trace[2].found
    /\ agent0 = "triage"
    /\ active = "searcher"

\* The tool messages that follow message a of h directly.
ToolRun(h, a) ==
    {n \in 0..(Len(h) - a) : \A i \in 1..n : h[a + i].role = "tool"}
ToolsAfter(h, a) == LastOf(ToolRun(h, a))

PredefinedFunctions ==
    {"handoff_to_coder", "handoff_to_searcher", "handoff_to_triage",
     "_run_claude_code"}

\* The agents that the functions a factory lists for agent a hand off to.
HandoffTargets(a) ==
    {r.agent : r \in UNION {Returns(f) :
                              f \in Functions(a) \cap PredefinedFunctions}}
        \ {""}

\* The handoff graph with triage as its hub.
HubEdges ==
    {<<"triage", "coder">>, <<"triage", "searcher">>,
     <<"coder", "triage">>, <<"searcher", "triage">>}

\* C31: triage exposes handoffs to coder and to searcher, coder and
\* searcher only one back to triage, and every handoff function returns the
\* agent it names; in a run started at triage the active agent is always
\* one of the three, and every change of the active agent that a function
\* of agents.py makes goes from triage to coder or searcher, or from one
\* of these back to triage, never between coder and searcher directly.
HubAndSpoke ==
    /\ [](/\ HandoffTargets("triage") = {"coder", "searcher"}
          /\ HandoffTargets("coder") = {"triage"}
          /\ HandoffTargets("searcher") = {"triage"}
          /\ \A f \in {"coder", "searcher", "triage"} :
                \A r \in Returns("handoff_to_" \o f) :
                    r.kind = "SwarmResult" /\ r.agent = f
          /\ (spc # "idle" /\ agent0 = "triage") => active \in AgentNames)
    /\ [][(/\ agent0 = "triage"
           /\ active' # active
           /\ trace'[Len(trace')].name \in PredefinedFunctions)
            => <<active, active'>> \in HubEdges]_allvars

\* Started at triage, the run has gone to the coder, back to triage and
\* on to the searcher.
HubAndSpokeWitness ==
    /\ agent0 = "triage"
    /\ Len(trace) = 3
    /\ trace[1].handoff = "coder" /\ trace[1].searched = "triage"
    /\ trace[2].handoff = "triage" /\ trace[2].searched = "coder"
    /\ trace[3].handoff = "searcher" /\ trace[3].searched = "triage"
    /\ active = "searcher"

----------------------------------------------------------------------------
(* AgentPool.run_agent *)

\* Largest max_iterations of a role.
MaxIter == 2
\* Largest number of tool calls in one response of the tool loop.
MaxToolCalls == 2

\* pool.py 158-170: the keys of tool_map
ToolMapKeys == {"file_read", "file_write", "file_edit", "list_dir", "shell",
                "web_search", "web_fetch"}

\* Tool names a role file may list: two the pool has and one it has not.
RoleToolNames == {"web_search", "file_read", "telepathy"}
\* Tool names a model response may ask for.
AskedToolNames == RoleToolNames \cup {"shell"}

\* RoleSpec (roles.py 13-25): a role that delegates to the claude CLI and
\* roles that run the tool loop.
PoolRoles ==
    {[name |-> "coder", use_claude_code |-> TRUE, max_iterations |-> MaxIter,
      tools |-> {}]}
    \cup [name : {"researcher"}, use_claude_code : {FALSE},
          max_iterations : 0..MaxIter, tools : SUBSET RoleToolNames]

PoolTaskIds == {"t1", "t2"}

\* pool.py 237
NoResponse == "(Agent completed without producing a response)"
\* pool.py 141
ClaudeEmpty == "(Claude Code returned empty output)"
\* pool.py 115
ClaudeNotFound == "Error: claude CLI not found in PATH. Install Claude Code first."
\* pool.py 87
TimedOutText == "Agent timed out."

\* A registry that is given every tool of the pool.
BuildRegistryOfAll(role_tools) == ToolMapKeys

\* pool.py 172-174
BuildRegistry(role_tools) == role_tools \cap ToolMapKeys

\* A loop that makes one call more than the budget.
IterGuardOffByOne(i, m) == i <= m

\* pool.py 199: range(max_iter) has a next value
IterGuard(i, m) == i < m

\* pool.py 237: final_result or the sentinel
FinalOrSentinel(f) == IF f = <<>> \/ f = <<"">> THEN NoResponse ELSE f[1]

\* pool.py 135-141: the output made of what the process wrote
ClaudeOutput(stdout, returncode, stderr) ==
    LET output == IF returncode # 0 /\ stderr # ""
                  THEN stdout \o "\n\n[stderr]\n" \o stderr
                  ELSE stdout
    IN  IF output = "" THEN ClaudeEmpty ELSE output

\* An artifact store of pairs: shared_mem.write(role.name, task_id, output)
PoolStoreWrite(st, agent_name, key, content) ==
    [k \in DOMAIN st \cup {<<agent_name, key>>} |->
        IF k = <<agent_name, key>> THEN content ELSE st[k]]

\* The session directory run_agent may find: empty, or with one artifact.
PoolStores == {<<>>, PoolStoreWrite(<<>>, "researcher", "t0", "earlier")}

PoolInit ==
    /\ ppc = "start"
    /\ prole \in PoolRoles
    /\ ptid \in PoolTaskIds
    /\ pstore \in PoolStores
    /\ registry = {} /\ iteration = 0
    /\ presp = <<>> /\ pidx = 0 /\ final = <<>>
    /\ proc = "none" /\ presult = <<>>
    /\ ran = {} /\ refused = {} /\ pexc = "none" /\ pwrites = <<>>

\* A classification that takes a timeout for any other exception.
CaughtAsError(exc) ==
    [status |-> "error", output |-> "Error: " \o exc]

\* pool.py 83-95: the except clauses of run_agent.  exc is "TimeoutError"
\* for asyncio.TimeoutError, else str(e) of the exception.
Caught(exc) ==
    IF exc = "TimeoutError"
    THEN [status |-> "timeout", output |-> TimedOutText]
    ELSE [status |-> "error", output |-> "Error: " \o exc]

\* pool.py 83-95: the body of run_agent raised exc.
ReturnCaught(exc) ==
    /\ presult' = AgentResult(prole.name, ptid, Caught(exc).output,
                              Caught(exc).status)
    /\ pexc' = exc
    /\ ppc' = "returned"
    /\ UNCHANGED <<pstore, pwrites>>

\* A return that skips the artifact.
ReturnOutputUnwritten(output) ==
    /\ presult' = AgentResult(prole.name, ptid, output, "ok")
    /\ ppc' = "returned"
    /\ UNCHANGED <<pstore, pwrites, pexc>>

\* pool.py 76-82: the mode returned output; the artifact is written and
\* the result returned, or the write raises and is caught at line 89.
ReturnOutput(output) ==
    \/ /\ pstore' = PoolStoreWrite(pstore, prole.name, ptid, output)
       /\ pwrites' = Append(pwrites, [agent_name |-> prole.name,
                                      key |-> ptid, content |-> output])
       /\ presult' = AgentResult(prole.name, ptid, output, "ok")
       /\ ppc' = "returned"
       /\ pexc' = pexc
    \/ ReturnCaught("[Errno 28] No space left on device")

\* _run_claude_code 101-115: no claude binary; the error text is the
\* output, and run_agent goes on as after any output.
ClaudeNotInstalled ==
    /\ ppc = "start"
    /\ prole.use_claude_code
    /\ ReturnOutput(ClaudeNotFound)
    /\ UNCHANGED <<prole, ptid, registry, iteration, presp, pidx, final, proc,
                   ran, refused>>
    /\ UNCHANGED <<vars, svars, hvars, mvars, tvars, wvars>>

\* _run_claude_code 119-129: the process is started and awaited.
ClaudeSpawn ==
    /\ ppc = "start"
    /\ prole.use_claude_code
    /\ ppc' = "proc"
    /\ proc' = "running"
    /\ UNCHANGED <<prole, ptid, pstore, registry, iteration, presp, pidx,
                   final, presult, ran, refused, pexc, pwrites>>
    /\ UNCHANGED <<vars, svars, hvars, mvars, tvars, wvars>>

\* _run_claude_code 119-124: create_subprocess_exec raises.
ClaudeSpawnRaises ==
    /\ ppc = "start"
    /\ prole.use_claude_code
    /\ ReturnCaught("[Errno 13] Permission denied")
    /\ UNCHANGED <<prole, ptid, registry, iteration, presp, pidx, final, proc,
                   ran, refused>>
    /\ UNCHANGED <<vars, svars, hvars, mvars, tvars, wvars>>

\* _run_claude_code 126-141: the process ends within the 600 s.
ClaudeExits ==
    /\ ppc = "proc"
    /\ proc' = "exited"
    /\ \E stdout \in {"", "patched"}, returncode \in {0, 1},
          stderr \in {"", "warning"} :
            ReturnOutput(ClaudeOutput(stdout, returncode, stderr))
    /\ UNCHANGED <<prole, ptid, registry, iteration, presp, pidx, final, ran,
                   refused>>
    /\ UNCHANGED <<vars, svars, hvars, mvars, tvars, wvars>>

\* A deadline that leaves the process running.
ProcLeftRunning == "running"

\* _run_claude_code 131-132: proc.kill() and proc.wait()
ProcAfterDeadline == "killed"

\* _run_claude_code 127-133, run_agent 83-88: the 600 s pass first.
ClaudeDeadline ==
    /\ ppc = "proc"
    /\ proc' = ProcAfterDeadline
    /\ ReturnCaught("TimeoutError")
    /\ UNCHANGED <<prole, ptid, registry, iteration, presp, pidx, final, ran,
                   refused>>
    /\ UNCHANGED <<vars, svars, hvars, mvars, tvars, wvars>>

\* _run_llm_loop 153-206: the registry is built on entry, and a pass of
\* the loop awaits provider.chat; the await has no timeout.
LoopCall ==
    /\ ppc \in {"start", "loop"}
    /\ ~prole.use_claude_code
    /\ IterGuard(iteration, prole.max_iterations)
    /\ registry' = BuildRegistry(prole.tools)
    /\ iteration' = iteration + 1
    /\ ppc' = "chat"
    /\ UNCHANGED <<prole, ptid, pstore, presp, pidx, final, proc, presult,
                   ran, refused, pexc, pwrites>>
    /\ UNCHANGED <<vars, svars, hvars, mvars, tvars, wvars>>

\* _run_llm_loop 199, 237: range(max_iter) is used up.
LoopExhausted ==
    /\ ppc \in {"start", "loop"}
    /\ ~prole.use_claude_code
    /\ ~IterGuard(iteration, prole.max_iterations)
    /\ registry' = BuildRegistry(prole.tools)
    /\ ReturnOutput(FinalOrSentinel(final))
    /\ UNCHANGED <<prole, ptid, iteration, presp, pidx, final, proc, ran,
                   refused>>
    /\ UNCHANGED <<vars, svars, hvars, mvars, tvars, wvars>>

\* _run_llm_loop 233-237: a response without tool calls; its content may
\* be a text, empty or None.
ChatAnswers ==
    /\ ppc = "chat"
    /\ \E content \in {<<"findings">>, <<"">>, <<>>} :
        /\ final' = content
        /\ ReturnOutput(FinalOrSentinel(content))
    /\ presp' = <<>>
    /\ pidx' = 0
    /\ UNCHANGED <<prole, ptid, registry, iteration, proc, ran, refused>>
    /\ UNCHANGED <<vars, svars, hvars, mvars, tvars, wvars>>

\* The tool_calls a response of the tool loop can carry.
ToolCallLists == UNION {[1..n -> AskedToolNames] : n \in 1..MaxToolCalls}

\* _run_llm_loop 208-223: a response with tool calls.
ChatRequestsTools ==
    /\ ppc = "chat"
    /\ \E names \in ToolCallLists : presp' = names
    /\ pidx' = 1
    /\ ppc' = "tools"
    /\ UNCHANGED <<prole, ptid, pstore, registry, iteration, final, proc,
                   presult, ran, refused, pexc, pwrites>>
    /\ UNCHANGED <<vars, svars, hvars, mvars, tvars, wvars>>

\* _run_llm_loop 200-206, run_agent 83-95: provider.chat raises, a timeout
\* of the provider's own or anything else.
ChatRaises ==
    /\ ppc = "chat"
    /\ \E exc \in {"TimeoutError", "Connection reset"} : ReturnCaught(exc)
    /\ UNCHANGED <<prole, ptid, registry, iteration, presp, pidx, final, proc,
                   ran, refused>>
    /\ UNCHANGED <<vars, svars, hvars, mvars, tvars, wvars>>

\* ToolRegistry.execute: a tool is run when the registry holds one of
\* that name; any other name gets an error text for its result.
RegistryRuns(reg, name) == name \in reg

\* _run_llm_loop 225-232: one tools.execute of the for loop.
RegistryExecute ==
    /\ ppc = "tools"
    /\ IF RegistryRuns(registry, presp[pidx])
       THEN ran' = ran \cup {presp[pidx]} /\ refused' = refused
       ELSE refused' = refused \cup {presp[pidx]} /\ ran' = ran
    /\ pidx' = pidx + 1
    /\ ppc' = IF pidx = Len(presp) THEN "loop" ELSE "tools"
    /\ UNCHANGED <<prole, ptid, pstore, registry, iteration, presp, final,
                   proc, presult, pexc, pwrites>>
    /\ UNCHANGED <<vars, svars, hvars, mvars, tvars, wvars>>

\* The steps the pool, the event loop and the claude process take by
\* themselves: the process ends or its deadline passes, a tool ends.
PoolOwnStep ==
    \/ ClaudeNotInstalled
    \/ ClaudeSpawn
    \/ ClaudeSpawnRaises
    \/ ClaudeExits
    \/ ClaudeDeadline
    \/ LoopCall
    \/ LoopExhausted
    \/ RegistryExecute

PoolNext ==
    \/ ClaudeNotInstalled
    \/ ClaudeSpawn
    \/ ClaudeSpawnRaises
    \/ ClaudeExits
    \/ ClaudeDeadline
    \/ LoopCall
    \/ LoopExhausted
    \/ ChatAnswers
    \/ ChatRequestsTools
    \/ ChatRaises
    \/ RegistryExecute

PoolSpecInit ==
    OrchInit /\ SwarmIdle /\ HandleIdle /\ PoolInit /\ StoreIdle /\ ToolIdle
    /\ ParseIdle /\ LoopIdle

PoolSpec == PoolSpecInit /\ [][PoolNext]_allvars

\* The pool's own steps are taken when they can be.  Nothing makes the
\* provider answer: the await of provider.chat has no deadline.
PoolFairSpec == PoolSpec /\ WF_allvars(PoolOwnStep)

----------------------------------------------------------------------------
(* Properties of AgentPool.run_agent *)

PoolKey == <<prole.name, ptid>>

ToolLoopMode == prole # <<>> /\ ~prole.use_claude_code

DelegateMode == prole # <<>> /\ prole.use_claude_code

\* C22, as claimed: whatever result run_agent has returned, its output is
\* in the store under (role, task id).
EveryResultWritten ==
    ppc = "returned" =>
        /\ PoolKey \in DOMAIN pstore
        /\ pstore[PoolKey] = presult.output

\* C22, amended: a result of status ok is returned with its output written
\* under (role, task id), by one write of this call; until run_agent
\* returns there is no result; a result of another status comes with no
\* write at all.
OkResultWritten ==
    /\ ppc # "returned" => presult = <<>> /\ pwrites = <<>>
    /\ (ppc = "returned" /\ presult.status = "ok") =>
        /\ PoolKey \in DOMAIN pstore
        /\ pstore[PoolKey] = presult.output
        /\ pwrites = <<[agent_name |-> prole.name, key |-> ptid,
                        content |-> presult.output]>>
    /\ (ppc = "returned" /\ presult.status # "ok") =>
        /\ pwrites = <<>>
        /\ pstore \in PoolStores

OkResultWrittenWitness ==
    /\ ppc = "returned"
    /\ DelegateMode
    /\ proc = "exited"
    /\ presult.status = "ok"
    /\ presult.output = "patched\n\n[stderr]\nwarning"
    /\ pstore[PoolKey] = presult.output

\* C23: run_agent ends by returning a result whose status is ok, error or
\* timeout; a timeout raised in either mode gives status timeout, any other
\* exception status error and its text after "Error: "; without an
\* exception the status is ok.
ExceptionsBecomeResults ==
    /\ ppc = "returned" =>
        /\ presult.status \in {"ok", "error", "timeout"}
        /\ presult.role = prole.name
        /\ presult.task_id = ptid
        /\ pexc = "none" <=> presult.status = "ok"
    /\ pexc = "TimeoutError" =>
        /\ ppc = "returned"
        /\ presult.status = "timeout"
        /\ presult.output = "Agent timed out."
    /\ pexc \notin {"none", "TimeoutError"} =>
        /\ ppc = "returned"
        /\ presult.status = "error"
        /\ presult.output = "Error: " \o pexc

ExceptionsBecomeResultsWitness ==
    /\ ppc = "returned"
    /\ ToolLoopMode
    /\ pexc = "Connection reset"
    /\ presult.output = "Error: Connection reset"
    /\ iteration = 2

\* C24: when the deadline of the claude process passes, the process is
\* killed, run_agent returns a result of status timeout and has written
\* nothing; the process is killed in no other case.
DelegateDeadlineKills ==
    /\ (DelegateMode /\ pexc = "TimeoutError") =>
        /\ proc = "killed"
        /\ ppc = "returned"
        /\ presult.status = "timeout"
        /\ pwrites = <<>>
        /\ pstore \in PoolStores
    /\ proc = "killed" => DelegateMode /\ pexc = "TimeoutError"
    /\ proc = "running" => ppc = "proc"

DelegateDeadlineKillsWitness ==
    /\ DelegateMode
    /\ proc = "killed"
    /\ ppc = "returned"
    /\ presult.status = "timeout"
    /\ pstore # <<>>

\* C25: run_agent returns in the end, whatever the provider does.
RunAgentReturns == <>(ppc = "returned")

\* C26: the tool loop makes at most max_iterations model calls; after a
\* response without tool calls run_agent returns without another call, the
\* output being the response's content (the sentinel when it has none);
\* when the calls are used up and the last response, if any, asked for
\* tools, every one of them was handled and the output is the sentinel.
ToolLoopBounded ==
    ToolLoopMode =>
        /\ iteration <= prole.max_iterations
        /\ (iteration > 0 /\ presp = <<>> /\ ppc # "chat") => ppc = "returned"
        /\ (ppc = "returned" /\ presult.status = "ok" /\ iteration > 0
                /\ presp = <<>>) =>
            presult.output =
                (IF final = <<>> \/ final[1] = ""
                 THEN "(Agent completed without producing a response)"
                 ELSE final[1])
        /\ (ppc = "returned" /\ pexc = "none"
                /\ (iteration = 0 \/ presp # <<>>)) =>
            /\ iteration = prole.max_iterations
            /\ presp # <<>> => pidx = Len(presp) + 1
            /\ final = <<>>
            /\ presult.output = "(Agent completed without producing a response)"

ToolLoopBoundedWitness ==
    /\ ToolLoopMode
    /\ ppc = "returned"
    /\ presult.status = "ok"
    /\ prole.max_iterations = MaxIter
    /\ iteration = MaxIter
    /\ presp # <<>>
    /\ presult.output = NoResponse

\* C27: the registry of a task holds the tools the role lists and the pool
\* has, and no others; every tool run is one of them, and a name that is
\* not is never run.
OnlyAllowedToolsRun ==
    ToolLoopMode =>
        /\ ppc # "start" =>
            registry = {n \in prole.tools : n \in ToolMapKeys}
        /\ \A n \in ran : n \in prole.tools /\ n \in ToolMapKeys
        /\ \A n \in refused : n \notin prole.tools \/ n \notin ToolMapKeys
        /\ iteration = 0 => ran = {} /\ refused = {}

OnlyAllowedToolsRunWitness ==
    /\ ToolLoopMode
    /\ prole.tools = {"web_search", "telepathy"}
    /\ ran = {"web_search"}
    /\ refused = {"shell", "telepathy"}

----------------------------------------------------------------------------
(* SharedMemory, file names as texts *)

\* Largest number of writing calls on one SharedMemory.
MaxStoreOps == 3

\* A text is a sequence of pieces, "." being a piece of its own, so that
\* joining texts is joining sequences.  No piece is the start of another,
\* and Pieces lists them in the order of str.
Pieces == <<".", "_final_report", "_task_graph", "coder", "json", "md",
            "qa", "t1", "t2", "v2">>
PieceRank(x) == CHOOSE i \in 1..Len(Pieces) : Pieces[i] = x

\* Role names (RoleSpec.name) and task ids (the keys of a planner's graph)
StoreAgents == {<<"coder">>, <<"qa">>}
StoreKeys == {<<"t1">>, <<"t2">>, <<"t1", ".", "v2">>}
StoreTexts == {"first", "second"}

\* memory.py 30, 38: f"{agent_name}.{key}.md"
FileName(agent_name, key) == agent_name \o <<".">> \o key \o <<".", "md">>

\* memory.py 63
TaskGraphFile == <<"_task_graph", ".", "json">>
\* memory.py 68
FinalReportFile == <<"_final_report", ".", "md">>

\* A write that leaves an existing file as it is.
FileWriteOnce(fs, name, content) ==
    [n \in DOMAIN fs \cup {name} |-> IF n \in DOMAIN fs THEN fs[n] ELSE content]

\* Path.write_text (memory.py 32, 64, 69): the file is made or replaced
FileWrite(fs, name, content) ==
    [n \in DOMAIN fs \cup {name} |-> IF n = name THEN content ELSE fs[n]]

\* glob("*.md") (memory.py 46): the names that end in .md
IsMd(name) ==
    /\ Len(name) >= 2
    /\ name[Len(name) - 1] = "."
    /\ name[Len(name)] = "md"

\* Path.stem (memory.py 47): the name without its last suffix
FileStem(name) == SubSeq(name, 1, Len(name) - 2)

\* The order of sorted() on the paths (memory.py 46)
RECURSIVE NameLess(_, _)
NameLess(a, b) ==
    IF a = <<>> THEN b # <<>>
    ELSE IF b = <<>> THEN FALSE
    ELSE IF a[1] = b[1] THEN NameLess(Tail(a), Tail(b))
    ELSE PieceRank(a[1]) < PieceRank(b[1])

RECURSIVE SortedNames(_)
SortedNames(S) ==
    IF S = {} THEN <<>>
    ELSE LET m == CHOOSE x \in S : \A y \in S \ {x} : NameLess(x, y)
         IN  <<m>> \o SortedNames(S \ {m})

\* memory.py 43-48: read_all, as the list of (stem, content) of its dict
StoreReadAll(fs) ==
    LET names == SortedNames({n \in DOMAIN fs : IsMd(n)})
    IN  [i \in 1..Len(names) |-> <<FileStem(names[i]), fs[names[i]]>>]

\* memory.py 50-59: get_briefing; the parts that are joined
StoreBriefing(fs) ==
    IF StoreReadAll(fs) = <<>> THEN <<"(No prior findings yet.)">>
    ELSE <<"# Prior findings from other agents\n">> \o StoreReadAll(fs)

\* memory.py 22-26: a SharedMemory on a new session directory
StoreInit ==
    /\ mfiles = <<>>
    /\ mlog = <<>>
    /\ mop = <<"init">>
    /\ mret = <<>>

\* memory.py 28-34
StoreWrite ==
    /\ Len(mlog) < MaxStoreOps
    /\ \E a \in StoreAgents, k \in StoreKeys, c \in StoreTexts :
        /\ mfiles' = FileWrite(mfiles, FileName(a, k), c)
        /\ mlog' = Append(mlog, [op |-> "write", agent_name |-> a, key |-> k,
                                 content |-> c])
        /\ mop' = <<"write", a, k>>
        /\ mret' = FileName(a, k)
    /\ UNCHANGED <<vars, svars, hvars, pvars, tvars, wvars>>

\* memory.py 36-41; None is <<>>
StoreRead ==
    /\ \E a \in StoreAgents, k \in StoreKeys :
        /\ mop' = <<"read", a, k>>
        /\ mret' = IF FileName(a, k) \in DOMAIN mfiles
                   THEN <<mfiles[FileName(a, k)]>> ELSE <<>>
    /\ UNCHANGED <<mfiles, mlog>>
    /\ UNCHANGED <<vars, svars, hvars, pvars, tvars, wvars>>

\* memory.py 50-59
StoreGetBriefing ==
    /\ mop' = <<"get_briefing">>
    /\ mret' = StoreBriefing(mfiles)
    /\ UNCHANGED <<mfiles, mlog>>
    /\ UNCHANGED <<vars, svars, hvars, pvars, tvars, wvars>>

\* memory.py 61-64
StoreWriteTaskGraph ==
    /\ Len(mlog) < MaxStoreOps
    /\ mfiles' = FileWrite(mfiles, TaskGraphFile, "graph")
    /\ mlog' = Append(mlog, [op |-> "write_task_graph", agent_name |-> <<>>,
                             key |-> <<>>, content |-> "graph"])
    /\ mop' = <<"write_task_graph">>
    /\ mret' = <<>>
    /\ UNCHANGED <<vars, svars, hvars, pvars, tvars, wvars>>

\* memory.py 66-69
StoreWriteFinalReport ==
    /\ Len(mlog) < MaxStoreOps
    /\ \E c \in StoreTexts :
        /\ mfiles' = FileWrite(mfiles, FinalReportFile, c)
        /\ mlog' = Append(mlog, [op |-> "write_final_report",
                                 agent_name |-> <<>>, key |-> <<>>,
                                 content |-> c])
    /\ mop' = <<"write_final_report">>
    /\ mret' = <<>>
    /\ UNCHANGED <<vars, svars, hvars, pvars, tvars, wvars>>

StoreNext ==
    \/ StoreWrite
    \/ StoreRead
    \/ StoreGetBriefing
    \/ StoreWriteTaskGraph
    \/ StoreWriteFinalReport

StoreSpecInit ==
    OrchInit /\ SwarmIdle /\ HandleIdle /\ PoolIdle /\ StoreInit /\ ToolIdle
    /\ ParseIdle /\ LoopIdle

StoreSpec == StoreSpecInit /\ [][StoreNext]_allvars

\* The write calls so far for the pair (a, k).
WritesOf(a, k) ==
    {i \in 1..Len(mlog) :
        mlog[i].op = "write" /\ mlog[i].agent_name = a /\ mlog[i].key = k}

Written ==
    {<<mlog[i].agent_name, mlog[i].key>> :
        i \in {j \in 1..Len(mlog) : mlog[j].op = "write"}}

\* C30: get_briefing returns the sentinel exactly when nothing was written
\* with write; otherwise, after the header, one part for each pair written
\* and no other part, each pair once, in the order of the names, with the
\* text last written.
BriefingListsArtifacts ==
    mop[1] = "get_briefing" =>
        /\ Written = {} <=> mret = <<"(No prior findings yet.)">>
        /\ Written # {} =>
            /\ Len(mret) = 1 + Cardinality(Written)
            /\ \A w \in Written : \E i \in 2..Len(mret) :
                /\ mret[i][1] = w[1] \o <<".">> \o w[2]
                /\ mret[i][2] = mlog[LastOf(WritesOf(w[1], w[2]))].content
            /\ \A i, j \in 2..Len(mret) :
                i < j => NameLess(mret[i][1], mret[j][1])

----------------------------------------------------------------------------
(* SwarmTool.execute *)

\* Largest number of execute calls on one SwarmTool.
MaxExecutes == 2

\* Channel names and chat ids, character by character.
Channels == {<<"c", "l", "i">>, <<"t", "g">>}
ChatIds == {<<"d">>, <<"7", ":", "1">>, <<"7", "_", "1">>}

\* str.isalnum() on the characters in use
IsAlnum(c) == c \in {"c", "l", "i", "t", "g", "d", "7", "1"}

\* tool.py 54-56: f"{channel}_{chat_id}", every character that is not
\* alphanumeric, "-" or "_" replaced by "_"
SessionId(channel, chat_id) ==
    LET joined == channel \o <<"_">> \o chat_id
    IN  [i \in 1..Len(joined) |->
            IF IsAlnum(joined[i]) \/ joined[i] \in {"-", "_"}
            THEN joined[i] ELSE "_"]

\* The graphs a planner may answer with, as task id -> role; the tasks
\* depend on nothing, so that every one of them is run.
ToolGraphs == UNION {[T -> Catalog] : T \in SUBSET {"t1", "t2"}}

\* The files of a session directory (SharedMemory.__init__, memory.py
\* 22-26: the directory is made if it is not there, and kept if it is)
SessionFiles(d, sid) == IF sid \in DOMAIN d THEN d[sid] ELSE <<>>

DiskWrite(d, sid, fs) ==
    [x \in DOMAIN d \cup {sid} |-> IF x = sid THEN fs ELSE d[x]]

\* tool.py 16-19: a new SwarmTool, and no session directory yet
ToolInit ==
    /\ tpc = "idle"
    /\ disk = <<>>
    /\ torigin = <<<<"c", "l", "i">>, <<"d">>>>
    /\ tsession = <<>>
    /\ tgraph = <<>>
    /\ tleft = {}
    /\ tcall = 0
    /\ twrites = <<>>

\* tool.py 21-23
SetContext ==
    /\ tpc \in {"idle", "done"}
    /\ \E channel \in Channels, chat_id \in ChatIds :
        torigin' = <<channel, chat_id>>
    /\ UNCHANGED <<tpc, disk, tsession, tgraph, tleft, tcall, twrites>>
    /\ UNCHANGED <<vars, svars, hvars, pvars, mvars, wvars>>

\* tool.py 54-61: the session id execute hands to handle
SessionOf(origin, n) == SessionId(origin[1], origin[2])

\* tool.py 52-61, orchestrator.py 51-63: execute enters handle, which
\* opens the session directory and plans; an empty graph ends the call.
Execute ==
    /\ tpc \in {"idle", "done"}
    /\ tcall < MaxExecutes
    /\ tcall' = tcall + 1
    /\ tsession' = SessionOf(torigin, tcall + 1)
    /\ disk' = DiskWrite(disk, tsession', SessionFiles(disk, tsession'))
    /\ \E g \in ToolGraphs :
        /\ tgraph' = g
        /\ tleft' = DOMAIN g
        /\ tpc' = IF DOMAIN g = {} THEN "done" ELSE "dispatch"
    /\ UNCHANGED <<torigin, twrites>>
    /\ UNCHANGED <<vars, svars, hvars, pvars, mvars, wvars>>

\* orchestrator.py 200-216, pool.py 76-82: the run_agent of a task returns
\* a result of status ok, having written its artifact.
TaskReturnsOk ==
    /\ tpc = "dispatch"
    /\ \E t \in tleft :
        /\ disk' = DiskWrite(disk, tsession,
                MemWrite(SessionFiles(disk, tsession), tgraph[t], t,
                         <<"output of call", tcall>>))
        /\ twrites' = Append(twrites, [session |-> tsession,
                agent_name |-> tgraph[t], key |-> t, call |-> tcall])
        /\ tleft' = tleft \ {t}
    /\ UNCHANGED <<tpc, torigin, tsession, tgraph, tcall>>
    /\ UNCHANGED <<vars, svars, hvars, pvars, mvars, wvars>>

\* pool.py 83-95: the run_agent of a task returns a result of status
\* timeout or error; nothing is written.
TaskReturnsFailed ==
    /\ tpc = "dispatch"
    /\ \E t \in tleft : tleft' = tleft \ {t}
    /\ UNCHANGED <<tpc, disk, torigin, tsession, tgraph, tcall, twrites>>
    /\ UNCHANGED <<vars, svars, hvars, pvars, mvars, wvars>>

\* orchestrator.py 68-77: every task has returned; the report is merged,
\* written and returned.
ExecuteReturns ==
    /\ tpc = "dispatch"
    /\ tleft = {}
    /\ disk' = DiskWrite(disk, tsession,
            WriteFinalReport(SessionFiles(disk, tsession),
                             <<"report of call", tcall>>))
    /\ tpc' = "done"
    /\ UNCHANGED <<torigin, tsession, tgraph, tleft, tcall, twrites>>
    /\ UNCHANGED <<vars, svars, hvars, pvars, mvars, wvars>>

ToolNext ==
    \/ SetContext
    \/ Execute
    \/ TaskReturnsOk
    \/ TaskReturnsFailed
    \/ ExecuteReturns

ToolSpecInit ==
    OrchInit /\ SwarmIdle /\ HandleIdle /\ PoolIdle /\ StoreIdle /\ ToolInit
    /\ ParseIdle /\ LoopIdle

ToolSpec == ToolSpecInit /\ [][ToolNext]_allvars

\* C28: no artifact of a session is written twice: two writes to the same
\* session under the same role and key are the same write.
OneWriterPerArtifact ==
    \A i, j \in 1..Len(twrites) :
        (/\ twrites[i].session = twrites[j].session
         /\ twrites[i].agent_name = twrites[j].agent_name
         /\ twrites[i].key = twrites[j].key) => i = j

----------------------------------------------------------------------------
(* SharedMemory.write and read for any role name *)

\* write and read take any str: role names and keys with and without a
\* dot (a role's name is whatever its YAML file gives, roles.py 102).
AnyAgents == {<<"coder">>, <<"coder", ".", "t1">>}
AnyKeys == {<<"v2">>, <<"t1", ".", "v2">>}

\* memory.py 36-41: what read returns; None is <<>>
ReadValue(fs, agent_name, key) ==
    IF FileName(agent_name, key) \in DOMAIN fs
    THEN <<fs[FileName(agent_name, key)]>> ELSE <<>>

\* memory.py 28-34
StoreWriteAny ==
    /\ Len(mlog) < MaxStoreOps
    /\ \E a \in AnyAgents, k \in AnyKeys, c \in StoreTexts :
        /\ mfiles' = FileWrite(mfiles, FileName(a, k), c)
        /\ mlog' = Append(mlog, [op |-> "write", agent_name |-> a, key |-> k,
                                 content |-> c])
        /\ mop' = <<"write", a, k>>
        /\ mret' = FileName(a, k)
    /\ UNCHANGED <<vars, svars, hvars, pvars, tvars, wvars>>

\* memory.py 36-41
StoreReadAny ==
    /\ \E a \in AnyAgents, k \in AnyKeys :
        /\ mop' = <<"read", a, k>>
        /\ mret' = ReadValue(mfiles, a, k)
    /\ UNCHANGED <<mfiles, mlog>>
    /\ UNCHANGED <<vars, svars, hvars, pvars, tvars, wvars>>

StoreAnyNext ==
    \/ StoreWriteAny
    \/ StoreReadAny

StoreAnySpec == StoreSpecInit /\ [][StoreAnyNext]_allvars

\* C36: a write(role, key, text) leaves what read returns for every other
\* (role, key) pair as it was, for role names and keys with and without a
\* dot.
WriteLeavesOtherPairs ==
    [][(mop'[1] = "write" /\ mlog' # mlog) =>
        \A a \in AnyAgents, k \in AnyKeys :
            <<a, k>> # <<mop'[2], mop'[3]>> =>
                ReadValue(mfiles', a, k) = ReadValue(mfiles, a, k)]_allvars

----------------------------------------------------------------------------
(* Orchestrator._parse_task_graph *)

\* the entries of the planner's object
MaxParseTasks == 2

\* A JSON value as json_repair.loads hands it back, tagged with its Python
\* type.  A string is a one-element val, a list holds task ids.
Json(kind, val) == [kind |-> kind, val |-> val]
JStr(text) == Json("str", <<text>>)
JList(ids) == Json("list", ids)
JNull == Json("NoneType", <<>>)

\* What a planner may put under "depends", "role" and "task".
DependsValues == {JList(<<>>), JList(<<"t1">>), JNull}
FieldValues(field) ==
    CASE field = "depends" -> DependsValues
      [] field = "role"    -> {JStr("coder")}
      [] field = "task"    -> {JStr("write it")}

\* An entry of the planner's object: an object with any of the three
\* fields, or something that is not an object.
ObjectEntries ==
    UNION {{[kind |-> "dict", fields |-> f] :
                f \in {g \in [F -> UNION {FieldValues(x) : x \in F}] :
                          \A x \in F : g[x] \in FieldValues(x)}} :
           F \in SUBSET {"role", "task", "depends"}}
Entries == ObjectEntries \cup {[kind |-> "str", fields |-> <<>>]}

\* What the planner's text can denote: an object of up to MaxParseTasks
\* entries, a list, a string.
JsonObjects ==
    UNION {{[kind |-> "dict", items |-> it] :
                it \in [{TidName[i] : i \in 1..n} -> Entries]} :
           n \in 0..MaxParseTasks}
NotObjects == {[kind |-> k, items |-> <<>>] : k \in {"list", "str"}}

\* the three backquotes of a markdown code fence
Fence == "<fence>"

\* The planner's text as tokens; "{}" stands for the text of the JSON
\* value, which holds no fence and no line break.
Contents ==
    {<<"\n", "{}", "\n">>,
     <<Fence, "json", "\n", "{}", "\n", Fence>>,
     <<Fence, "{}", Fence>>,
     <<Fence, "\n", "{}">>}

IsSpace(tok) == tok \in {"\n", " "}

RECURSIVE LStrip(_)
LStrip(t) == IF t # <<>> /\ IsSpace(t[1]) THEN LStrip(Tail(t)) ELSE t
RECURSIVE RStrip(_)
RStrip(t) ==
    IF t # <<>> /\ IsSpace(t[Len(t)]) THEN RStrip(SubSeq(t, 1, Len(t) - 1))
    ELSE t
\* str.strip()
Strip(t) == RStrip(LStrip(t))

\* _parse_task_graph 135: text.split("\n", 1)[-1]
AfterFirstNewline(t) ==
    IF \E i \in 1..Len(t) : t[i] = "\n"
    THEN LET i == CHOOSE i \in 1..Len(t) :
                    t[i] = "\n" /\ \A j \in 1..(i - 1) : t[j] # "\n"
         IN  SubSeq(t, i + 1, Len(t))
    ELSE t

\* _parse_task_graph 137: text.rsplit(fence, 1)[0]
BeforeLastFence(t) ==
    LET i == CHOOSE i \in 1..Len(t) :
                t[i] = Fence /\ \A j \in (i + 1)..Len(t) : t[j] # Fence
    IN  SubSeq(t, 1, i - 1)

\* _parse_task_graph 132-138
Unfence(content) ==
    LET a == Strip(content)
        b == IF a # <<>> /\ a[1] = Fence THEN AfterFirstNewline(a) ELSE a
        c == IF b # <<>> /\ b[Len(b)] = Fence THEN BeforeLastFence(b) ELSE b
    IN  Strip(c)

\* _parse_task_graph 141: json_repair.loads.  Text that is the JSON value
\* gives the value; of text with a fence left in it the library makes the
\* value, or something that is not an object.
Loads(text, body) ==
    IF text = <<"{}">> THEN {body} ELSE {body} \cup NotObjects

\* _parse_task_graph 153: task.setdefault("depends", [])
ValidEntry(task) ==
    [kind |-> "dict",
     fields |-> [x \in DOMAIN task.fields \cup {"depends"} |->
                    IF x \in DOMAIN task.fields THEN task.fields[x]
                    ELSE JList(<<>>)]]

\* _parse_task_graph 146-156
Validate(loaded) ==
    IF loaded.kind # "dict" THEN <<>>
    ELSE LET keep == {tid \in DOMAIN loaded.items :
                        /\ loaded.items[tid].kind = "dict"
                        /\ "role" \in DOMAIN loaded.items[tid].fields
                        /\ "task" \in DOMAIN loaded.items[tid].fields}
         IN  [tid \in keep |-> ValidEntry(loaded.items[tid])]

ParseInit ==
    /\ qpc = "plan"
    /\ qcontent \in Contents
    /\ qbody \in JsonObjects \cup NotObjects
    /\ qloaded = <<>>
    /\ qvalid = <<>>

\* _parse_task_graph 140-144: json_repair.loads raises, the graph is empty.
ParseRaises ==
    /\ qpc = "plan"
    /\ qbody \in NotObjects
    /\ qpc' = "parsed"
    /\ qvalid' = <<>>
    /\ UNCHANGED <<qcontent, qbody, qloaded>>
    /\ UNCHANGED <<vars, svars, hvars, pvars, mvars, tvars, lvars>>

\* _plan 126, _parse_task_graph 132-156: the text is parsed and validated.
ParseReturns ==
    /\ qpc = "plan"
    /\ \E v \in Loads(Unfence(qcontent), qbody) :
        /\ qloaded' = v
        /\ qvalid' = Validate(v)
    /\ qpc' = "parsed"
    /\ UNCHANGED <<qcontent, qbody>>
    /\ UNCHANGED <<vars, svars, hvars, pvars, mvars, tvars, lvars>>

\* handle 62-63: an empty graph is not dispatched.
ParsedEmpty ==
    /\ qpc = "parsed"
    /\ DOMAIN qvalid = {}
    /\ qpc' = "done"
    /\ UNCHANGED <<qcontent, qbody, qloaded, qvalid>>
    /\ UNCHANGED <<vars, svars, hvars, pvars, mvars, tvars, lvars>>

\* _dispatch 172-173: all(d in completed for d in deps) iterates deps
Iterable(deps) == deps.kind \in {"list", "str"}

\* handle 68, _dispatch 165-174: the first pass over pending computes the
\* ready tasks.
FirstPassReady ==
    /\ qpc = "parsed"
    /\ DOMAIN qvalid # {}
    /\ \A tid \in DOMAIN qvalid : Iterable(qvalid[tid].fields["depends"])
    /\ qpc' = "ready"
    /\ UNCHANGED <<qcontent, qbody, qloaded, qvalid>>
    /\ UNCHANGED <<vars, svars, hvars, pvars, mvars, tvars, lvars>>

\* _dispatch 172-173: a depends that cannot be iterated raises TypeError;
\* neither _dispatch nor handle catches it.
FirstPassRaises ==
    /\ qpc = "parsed"
    /\ \E tid \in DOMAIN qvalid : ~Iterable(qvalid[tid].fields["depends"])
    /\ qpc' = "raised"
    /\ UNCHANGED <<qcontent, qbody, qloaded, qvalid>>
    /\ UNCHANGED <<vars, svars, hvars, pvars, mvars, tvars, lvars>>

ParseNext ==
    \/ ParseRaises
    \/ ParseReturns
    \/ ParsedEmpty
    \/ FirstPassReady
    \/ FirstPassRaises

ParseSpecInit ==
    /\ OrchInit /\ SwarmIdle /\ HandleIdle
    /\ PoolIdle /\ StoreIdle /\ ToolIdle
    /\ ParseInit /\ LoopIdle

ParseSpec == ParseSpecInit /\ [][ParseNext]_allvars

\* C32: what _parse_task_graph returns for an object is exactly its
\* entries that are objects with a role and a task field, each as it was
\* but for a depends of [] where it had none; for anything that is not an
\* object it returns the empty graph; and every task of a graph that
\* handle passes to _dispatch has a role, a task and a list of dependencies.
ParsedTasksWellFormed ==
    qpc \in {"parsed", "done", "ready", "raised"} =>
        /\ (qloaded = <<>> \/ qloaded.kind # "dict") => qvalid = <<>>
        /\ (qloaded # <<>> /\ qloaded.kind = "dict") =>
            /\ DOMAIN qvalid =
                    {tid \in DOMAIN qloaded.items :
                        /\ qloaded.items[tid].kind = "dict"
                        /\ {"role", "task"}
                                \subseteq DOMAIN qloaded.items[tid].fields}
            /\ \A tid \in DOMAIN qvalid :
                /\ \A x \in DOMAIN qloaded.items[tid].fields :
                        qvalid[tid].fields[x] = qloaded.items[tid].fields[x]
                /\ "depends" \notin DOMAIN qloaded.items[tid].fields =>
                        qvalid[tid].fields["depends"] = JList(<<>>)
        /\ \A tid \in DOMAIN qvalid :
            /\ {"role", "task", "depends"} \subseteq DOMAIN qvalid[tid].fields
            /\ qvalid[tid].fields["depends"].kind = "list"
        /\ qpc # "raised"

----------------------------------------------------------------------------
(* AgentLoop.run *)

\* the messages the bus delivers
MaxMsgs == 3
\* self.max_iterations
MaxLoopIter == 2
\* the tool calls of one model response
MaxLoopCalls == 2

\* InboundMessage; content and chat_id are token sequences.
Inbound(channel, chat_id, content) ==
    [channel |-> channel, chat_id |-> chat_id, content |-> content]

\* The texts a user sends, and the announcement of a subagent.
UserContents ==
    {<<"hello">>,
     <<"enter", " ", "/proj">>,
     <<"enter", " ", "/nope">>,
     <<"open", " ", "/etc/hosts">>,
     <<"exit">>,
     <<" ", "EXIT", " ">>}
InboundMessages ==
    {Inbound(c, <<"d">>, t) : c \in {"cli", "tg"}, t \in UserContents}
    \cup {Inbound("system", id, <<"announce">>) :
            id \in {<<"tg", ":", "d">>, <<"d">>}}

\* str.lower() on the tokens that have upper case
Lower(tok) ==
    CASE tok = "EXIT"  -> "exit"
      [] tok = "ENTER" -> "enter"
      [] OTHER         -> tok
LowerAll(t) == [i \in 1..Len(t) |-> Lower(t[i])]

\* _handle_claude_mode 435-440: the ASCII entries of exit_commands
ExitCommands == {<<"exit">>, <<"quit">>, <<"exit", " ", "claude">>, <<"q">>}
IsExit(content) == LowerAll(Strip(content)) \in ExitCommands

\* Path.exists and Path.is_dir on the paths of the messages
PathKind(path) ==
    CASE path = "/proj"      -> "dir"
      [] path = "/etc/hosts" -> "file"
      [] OTHER               -> "missing"
IsPath(tok) == tok \in {"/proj", "/etc/hosts", "/nope"}

\* _check_enter_claude_mode 399-408: the positions where a pattern
\* matches, a verb, white space and a path
EnterMatches(content) ==
    {i \in 1..(Len(content) - 2) :
        /\ Lower(content[i]) \in {"enter", "open", "cc"}
        /\ content[i + 1] = " "
        /\ IsPath(content[i + 2])}
\* match.group(1) of the first match
EnterPath(content) ==
    content[2 + CHOOSE i \in EnterMatches(content) :
                    \A j \in EnterMatches(content) : i <= j]

\* An enter request that asks only whether the path exists.
PathAcceptedIfExists(path) == PathKind(path) # "missing"

\* _check_enter_claude_mode 411-414
PathAccepted(path) == PathKind(path) = "dir"

\* The Claude mode fields of a session; None is <<>>.
ModeFields(mode, dir, sid) ==
    [claude_mode |-> mode, claude_working_dir |-> dir,
     claude_session_id |-> sid]
FreshSession == ModeFields(FALSE, <<>>, <<>>)

\* _check_enter_claude_mode 416-418
Entered(path) == ModeFields(TRUE, <<path>>, <<>>)

\* _handle_claude_mode 441-443
Exited == ModeFields(FALSE, <<>>, <<>>)

\* _process_system_message 267-274: the origin named by the chat_id
Origin(chat_id) ==
    IF \E i \in 1..Len(chat_id) : chat_id[i] = ":"
    THEN LET i == CHOOSE i \in 1..Len(chat_id) :
                    chat_id[i] = ":" /\ \A j \in 1..(i - 1) : chat_id[j] # ":"
         IN  <<chat_id[1], SubSeq(chat_id, i + 1, Len(chat_id))>>
    ELSE <<"cli", chat_id>>

\* _process_message 159, _process_system_message 277: the session of a
\* message
SessionKey(m) ==
    IF m.channel = "system" THEN Origin(m.chat_id)
    ELSE <<m.channel, m.chat_id>>
SessionKeys == {SessionKey(m) : m \in InboundMessages}

\* OutboundMessage, with what made it: the reply that _process_message
\* returned, the error reply of run, or the message tool.
Outbound(channel, chat_id, kind) ==
    [channel |-> channel, chat_id |-> chat_id, kind |-> kind]

\* _process_message 169-173, 251-255, 445-449, 506-524
Reply(m) == Outbound(m.channel, m.chat_id, "reply")

\* _process_system_message 349-353
SystemReply(m) == Outbound(Origin(m.chat_id)[1], Origin(m.chat_id)[2], "reply")

\* An error reply that goes to the origin of a system message.
ErrorReplyToOrigin(m) ==
    IF m.channel = "system"
    THEN Outbound(Origin(m.chat_id)[1], Origin(m.chat_id)[2], "error")
    ELSE Outbound(m.channel, m.chat_id, "error")

\* run 128-132
ErrorReply(m) == Outbound(m.channel, m.chat_id, "error")

\* What processing a message has done so far: the calls of the model, the
\* tools executed, the claude processes started, whether the session was
\* in Claude Code mode when the message came, whether processing raised,
\* and whether processing the message before did.
NoActs(mode) ==
    [chat |-> 0, tool |-> 0, claude |-> 0, mode |-> mode, raised |-> FALSE,
     prior |-> (acts # <<>> /\ acts.raised)]

\* A _process_message that does not ask whether the session is in Claude
\* Code mode.
ClaudeModeIgnored(session) == FALSE

\* _process_message 162
ClaudeModeOn(session) == session.claude_mode

\* __init__ 52-74: a loop that has not been run, no session yet in Claude
\* Code mode
LoopInit ==
    /\ lpc = "idle"
    /\ running = FALSE
    /\ lmsg = <<>>
    /\ sessions = [k \in SessionKeys |-> FreshSession]
    /\ outbox = <<>>
    /\ consumed = 0
    /\ liter = 0
    /\ lcalls = <<>>
    /\ acts = <<>>
    /\ stopMark = <<>>

\* run 109-112
RunStarts ==
    /\ lpc = "idle"
    /\ running' = TRUE
    /\ lpc' = "top"
    /\ UNCHANGED <<lmsg, sessions, outbox, consumed, liter, lcalls, acts,
                   stopMark>>
    /\ UNCHANGED <<vars, svars, hvars, pvars, mvars, tvars, qvars>>

\* run 112-118: _running holds, run waits for a message.
RunWaits ==
    /\ lpc = "top"
    /\ running
    /\ lpc' = "consume"
    /\ UNCHANGED <<running, lmsg, sessions, outbox, consumed, liter, lcalls,
                   acts, stopMark>>
    /\ UNCHANGED <<vars, svars, hvars, pvars, mvars, tvars, qvars>>

\* run 112: _running is false, run returns.
RunReturns ==
    /\ lpc = "top"
    /\ ~running
    /\ lpc' = "returned"
    /\ UNCHANGED <<running, lmsg, sessions, outbox, consumed, liter, lcalls,
                   acts, stopMark>>
    /\ UNCHANGED <<vars, svars, hvars, pvars, mvars, tvars, qvars>>

\* run 115-118, 133-134: no message within the second.
ConsumeTimeout ==
    /\ lpc = "consume"
    /\ lpc' = "top"
    /\ UNCHANGED <<running, lmsg, sessions, outbox, consumed, liter, lcalls,
                   acts, stopMark>>
    /\ UNCHANGED <<vars, svars, hvars, pvars, mvars, tvars, qvars>>

\* stop 136-139, called by another task while run is suspended at an
\* await; the first call is recorded.
Stop ==
    /\ lpc \in {"consume", "chat", "tools", "claude"}
    /\ stopMark = <<>>
    /\ running' = FALSE
    /\ stopMark' = [consumed |-> consumed, at |-> lpc]
    /\ UNCHANGED <<lpc, lmsg, sessions, outbox, consumed, liter, lcalls,
                   acts>>
    /\ UNCHANGED <<vars, svars, hvars, pvars, mvars, tvars, qvars>>

\* run 115-122: consume_inbound returns m and _process_message begins.
Consumes(m) ==
    /\ lpc = "consume"
    /\ consumed < MaxMsgs
    /\ lmsg' = m
    /\ consumed' = consumed + 1
    /\ UNCHANGED <<running, stopMark>>
    /\ UNCHANGED <<vars, svars, hvars, pvars, mvars, tvars, qvars>>

\* _process_message 202-210 and _process_system_message 305-312: the
\* first call of the model, or the default reply when the budget of
\* iterations is empty
FirstIteration(reply) ==
    IF MaxLoopIter > 0
    THEN /\ lpc' = "chat"
         /\ liter' = 1
         /\ outbox' = <<>>
    ELSE /\ lpc' = "top"
         /\ liter' = 0
         /\ outbox' = <<reply>>

\* _process_message 153-154, _process_system_message 264-312: a system
\* message goes to the model whatever the mode of its session.
ConsumeSystem ==
    /\ \E m \in InboundMessages :
        /\ m.channel = "system"
        /\ Consumes(m)
        /\ acts' = NoActs(sessions[SessionKey(m)].claude_mode)
        /\ FirstIteration(SystemReply(m))
    /\ UNCHANGED <<sessions, lcalls>>

\* _process_message 162-163, _handle_claude_mode 435-449: an exit command
\* in Claude Code mode.
ConsumeExit ==
    /\ \E m \in InboundMessages :
        /\ m.channel # "system"
        /\ ClaudeModeOn(sessions[SessionKey(m)])
        /\ IsExit(m.content)
        /\ Consumes(m)
        /\ acts' = NoActs(sessions[SessionKey(m)].claude_mode)
        /\ sessions' = [sessions EXCEPT ![SessionKey(m)] = Exited]
        /\ outbox' = <<Reply(m)>>
    /\ lpc' = "top"
    /\ UNCHANGED <<liter, lcalls>>

\* _process_message 162-163, _handle_claude_mode 451-471: any other
\* message in Claude Code mode; the claude process is started.
ConsumeForward ==
    /\ \E m \in InboundMessages :
        /\ m.channel # "system"
        /\ ClaudeModeOn(sessions[SessionKey(m)])
        /\ ~IsExit(m.content)
        /\ Consumes(m)
        /\ acts' = [NoActs(sessions[SessionKey(m)].claude_mode)
                        EXCEPT !.claude = 1]
    /\ lpc' = "claude"
    /\ outbox' = <<>>
    /\ UNCHANGED <<sessions, liter, lcalls>>

\* _process_message 166-173, _check_enter_claude_mode 399-425: a request
\* to enter Claude Code mode with a path that is accepted.
ConsumeEnter ==
    /\ \E m \in InboundMessages :
        /\ m.channel # "system"
        /\ ~ClaudeModeOn(sessions[SessionKey(m)])
        /\ EnterMatches(m.content) # {}
        /\ PathAccepted(EnterPath(m.content))
        /\ Consumes(m)
        /\ acts' = NoActs(sessions[SessionKey(m)].claude_mode)
        /\ sessions' = [sessions EXCEPT
                            ![SessionKey(m)] = Entered(EnterPath(m.content))]
        /\ outbox' = <<Reply(m)>>
    /\ lpc' = "top"
    /\ UNCHANGED <<liter, lcalls>>

\* _process_message 166-173, _check_enter_claude_mode 411-414: a request
\* to enter with a path that is missing or is no directory; the error
\* text is the reply.
ConsumeEnterFails ==
    /\ \E m \in InboundMessages :
        /\ m.channel # "system"
        /\ ~ClaudeModeOn(sessions[SessionKey(m)])
        /\ EnterMatches(m.content) # {}
        /\ ~PathAccepted(EnterPath(m.content))
        /\ Consumes(m)
        /\ acts' = NoActs(sessions[SessionKey(m)].claude_mode)
        /\ outbox' = <<Reply(m)>>
    /\ lpc' = "top"
    /\ UNCHANGED <<sessions, liter, lcalls>>

\* _process_message 175-210: any other message goes to the model.
ConsumeChat ==
    /\ \E m \in InboundMessages :
        /\ m.channel # "system"
        /\ ~ClaudeModeOn(sessions[SessionKey(m)])
        /\ EnterMatches(m.content) = {}
        /\ Consumes(m)
        /\ acts' = NoActs(sessions[SessionKey(m)].claude_mode)
        /\ FirstIteration(Reply(m))
    /\ UNCHANGED <<sessions, lcalls>>

\* The reply of the message being processed.
ReplyOf(m) == IF m.channel = "system" THEN SystemReply(m) ELSE Reply(m)

\* The tool calls of one response of the model.
LoopTools == {"read_file", "message"}
LoopCalls ==
    UNION {[1..n -> LoopTools] : n \in 1..MaxLoopCalls}

\* _process_message 206-246, 251-255 (and 309-353), run 123-124: the
\* model answers without tool calls, the answer is returned and published.
LoopModelAnswers ==
    /\ lpc = "chat"
    /\ acts' = [acts EXCEPT !.chat = @ + 1]
    /\ outbox' = Append(outbox, ReplyOf(lmsg))
    /\ lpc' = "top"
    /\ UNCHANGED <<running, lmsg, sessions, consumed, liter, lcalls,
                   stopMark>>
    /\ UNCHANGED <<vars, svars, hvars, pvars, mvars, tvars, qvars>>

\* _process_message 206-228: the model asks for tools.
LoopModelAsksTools ==
    /\ lpc = "chat"
    /\ acts' = [acts EXCEPT !.chat = @ + 1]
    /\ \E cs \in LoopCalls : lcalls' = cs
    /\ lpc' = "tools"
    /\ UNCHANGED <<running, lmsg, sessions, outbox, consumed, liter,
                   stopMark>>
    /\ UNCHANGED <<vars, svars, hvars, pvars, mvars, tvars, qvars>>

\* _process_message 206-210, run 125-132: provider.chat raises; run
\* publishes the error reply and goes on.
LoopModelRaises ==
    /\ lpc = "chat"
    /\ acts' = [acts EXCEPT !.chat = @ + 1, !.raised = TRUE]
    /\ outbox' = Append(outbox, ErrorReply(lmsg))
    /\ lpc' = "top"
    /\ UNCHANGED <<running, lmsg, sessions, consumed, liter, lcalls,
                   stopMark>>
    /\ UNCHANGED <<vars, svars, hvars, pvars, mvars, tvars, qvars>>

\* _register_default_tools 96: the message tool is given
\* bus.publish_outbound; when it runs it publishes, or it returns an
\* error text and publishes nothing.
ToolPublishes(name) ==
    IF name = "message"
    THEN {<<>>, <<Outbound(lmsg.channel, lmsg.chat_id, "tool")>>}
    ELSE {<<>>}

\* _process_message 230-238, 202, 248-255: the next tool call is executed;
\* after the last one the loop calls the model again, or the budget of
\* iterations is used up and the default reply is returned and published.
ToolExecutes ==
    /\ lpc = "tools"
    /\ lcalls # <<>>
    /\ acts' = [acts EXCEPT !.tool = @ + 1]
    /\ lcalls' = Tail(lcalls)
    /\ \E sent \in ToolPublishes(Head(lcalls)) :
        IF Tail(lcalls) # <<>>
        THEN /\ outbox' = outbox \o sent
             /\ UNCHANGED <<lpc, liter>>
        ELSE IF liter < MaxLoopIter
        THEN /\ outbox' = outbox \o sent
             /\ lpc' = "chat"
             /\ liter' = liter + 1
        ELSE /\ outbox' = (outbox \o sent) \o <<ReplyOf(lmsg)>>
             /\ lpc' = "top"
             /\ UNCHANGED liter
    /\ UNCHANGED <<running, lmsg, sessions, consumed, stopMark>>
    /\ UNCHANGED <<vars, svars, hvars, pvars, mvars, tvars, qvars>>

\* What the claude process did: it answered and printed a session id, it
\* answered without one, or it could not be started or failed.
ClaudeOutcomes == {"session", "plain", "failed"}

\* _handle_claude_mode 473-524, run 123-124: the claude process ends; a
\* session id in its output is kept when the session has none; the output
\* or the error text is the reply.
ClaudeReturns ==
    /\ lpc = "claude"
    /\ \E out \in ClaudeOutcomes :
        LET k == SessionKey(lmsg) IN
        sessions' =
            IF out = "session" /\ sessions[k].claude_session_id = <<>>
            THEN [sessions EXCEPT ![k].claude_session_id = <<"sid">>]
            ELSE sessions
    /\ outbox' = Append(outbox, Reply(lmsg))
    /\ lpc' = "top"
    /\ UNCHANGED <<running, lmsg, consumed, liter, lcalls, acts, stopMark>>
    /\ UNCHANGED <<vars, svars, hvars, pvars, mvars, tvars, qvars>>

LoopNext ==
    \/ RunStarts
    \/ RunWaits
    \/ RunReturns
    \/ ConsumeTimeout
    \/ Stop
    \/ ConsumeSystem
    \/ ConsumeExit
    \/ ConsumeForward
    \/ ConsumeEnter
    \/ ConsumeEnterFails
    \/ ConsumeChat
    \/ LoopModelAnswers
    \/ LoopModelAsksTools
    \/ LoopModelRaises
    \/ ToolExecutes
    \/ ClaudeReturns

LoopSpecInit ==
    /\ OrchInit /\ SwarmIdle /\ HandleIdle
    /\ PoolIdle /\ StoreIdle /\ ToolIdle
    /\ ParseIdle /\ LoopInit

LoopSpec == LoopSpecInit /\ [][LoopNext]_allvars

\* A non-system message is being or was last processed.
UserMessageTaken == lmsg # <<>> /\ lmsg.channel # "system"

\* C38: a non-system message consumed while its session is in Claude Code
\* mode is an exit command, and then nothing is started for it, or it is
\* forwarded to the claude process; for neither is the model called or a
\* tool executed; and a session leaves Claude Code mode only in the step
\* that processes an exit command of that session.
ClaudeModeForwards ==
    /\ [](UserMessageTaken /\ acts.mode =>
            /\ acts.chat = 0
            /\ acts.tool = 0
            /\ acts.claude = (IF IsExit(lmsg.content) THEN 0 ELSE 1))
    /\ [][\A k \in SessionKeys :
            sessions[k].claude_mode /\ ~sessions'[k].claude_mode =>
                /\ consumed' = consumed + 1
                /\ lmsg'.channel # "system"
                /\ SessionKey(lmsg') = k
                /\ IsExit(lmsg'.content)]_allvars

\* A text that would have entered Claude Code mode was forwarded to the
\* claude process and answered, and the session is still in the mode.
ClaudeModeForwardsWitness ==
    /\ UserMessageTaken
    /\ acts.mode
    /\ EnterMatches(lmsg.content) # {}
    /\ acts.claude = 1
    /\ lpc = "top"
    /\ Len(outbox) = 1
    /\ sessions[SessionKey(lmsg)].claude_mode
    /\ sessions[SessionKey(lmsg)].claude_session_id # <<>>

\* C39: a session in Claude Code mode has a working directory; a session
\* enters the mode only on a request whose path is a directory, and then
\* the directory is set and the Claude session id reset; a request to
\* enter with any other path changes no session, calls no model and is
\* answered at once; leaving the mode clears working directory and
\* Claude session id with it.
ModeHasWorkingDir ==
    /\ [](\A k \in SessionKeys :
            sessions[k].claude_mode => sessions[k].claude_working_dir # <<>>)
    /\ [][/\ \A k \in SessionKeys :
                /\ ~sessions[k].claude_mode /\ sessions'[k].claude_mode =>
                    /\ consumed' = consumed + 1
                    /\ lmsg'.channel # "system"
                    /\ SessionKey(lmsg') = k
                    /\ EnterMatches(lmsg'.content) # {}
                    /\ PathKind(EnterPath(lmsg'.content)) = "dir"
                    /\ sessions'[k].claude_working_dir
                          = <<EnterPath(lmsg'.content)>>
                    /\ sessions'[k].claude_session_id = <<>>
                /\ sessions[k].claude_mode /\ ~sessions'[k].claude_mode =>
                    /\ sessions'[k].claude_working_dir = <<>>
                    /\ sessions'[k].claude_session_id = <<>>
          /\ (/\ consumed' = consumed + 1
              /\ lmsg'.channel # "system"
              /\ ~sessions[SessionKey(lmsg')].claude_mode
              /\ EnterMatches(lmsg'.content) # {}
              /\ PathKind(EnterPath(lmsg'.content)) # "dir") =>
                /\ sessions' = sessions
                /\ acts'.chat = 0
                /\ lpc' = "top"
                /\ outbox' = <<Outbound(lmsg'.channel, lmsg'.chat_id,
                                        "reply")>>]_allvars

\* One session entered the mode and claude gave it a session id; then the
\* request of another session to enter with a file was refused.
ModeHasWorkingDirWitness ==
    /\ consumed = 3
    /\ UserMessageTaken
    /\ EnterMatches(lmsg.content) # {}
    /\ PathKind(EnterPath(lmsg.content)) = "file"
    /\ \E k \in SessionKeys :
        /\ k # SessionKey(lmsg)
        /\ sessions[k].claude_mode
        /\ sessions[k].claude_session_id # <<>>
    /\ ~sessions[SessionKey(lmsg)].claude_mode

\* The outbound messages of the message in hand that run published
\* itself, and those of a given kind.
OfKind(kind) == {i \in 1..Len(outbox) : outbox[i].kind = kind}
OwnReplies == OfKind("reply") \cup OfKind("error")

\* When processing raised: one error reply, to the channel and chat of
\* the message, no other reply, and run goes on, returning only when it
\* was stopped.
SurvivesRaise ==
    (acts # <<>> /\ acts.raised) =>
        /\ Cardinality(OfKind("error")) = 1
        /\ \A i \in OfKind("error") :
              /\ outbox[i].channel = lmsg.channel
              /\ outbox[i].chat_id = lmsg.chat_id
        /\ OfKind("reply") = {}
        /\ lpc \in {"top", "consume", "returned"}
        /\ (lpc = "returned" => stopMark # <<>>)

\* C40 as stated: a raise while processing gives exactly one error reply
\* to the channel and chat of the message and run goes on; a consumed
\* message has at most one outbound message; and once stop() was called
\* no further message is consumed.
RunSurvives ==
    /\ SurvivesRaise
    /\ Len(outbox) <= 1
    /\ (stopMark # <<>> => consumed = stopMark.consumed)

\* C40: a raise while processing gives exactly one error reply to the
\* channel and chat of the message and run goes on; for a consumed message
\* run publishes at most one outbound message itself, any other comes from
\* an executed tool; and once stop() was called no further message is
\* consumed, but for the one that the consume_inbound call pending at the
\* time of stop() returns.
RunSurvivesOwnReplies ==
    /\ SurvivesRaise
    /\ Cardinality(OwnReplies) <= 1
    /\ (acts # <<>> => Cardinality(OfKind("tool")) <= acts.tool)
    /\ (stopMark # <<>> =>
            /\ consumed <= stopMark.consumed
                            + (IF stopMark.at = "consume" THEN 1 ELSE 0)
            /\ (lpc = "returned" \/ ~running))
    /\ (lpc = "returned" => stopMark # <<>>)

\* After a message whose processing raised, the next message was consumed
\* and answered.
RunSurvivesOwnRepliesWitness ==
    /\ consumed = 2
    /\ acts # <<>>
    /\ acts.prior
    /\ ~acts.raised
    /\ lpc = "top"
    /\ Len(outbox) = 1
    /\ outbox[1].kind = "reply"
    /\ stopMark = <<>>

====
